---- MODULE Spec2Model ----
(***************************************************************************)
(* GlyphScope: a model of the analysis pipeline (parse.js, intentmap.js,   *)
(* risks.js, fpfn-rules.js).  Text is modelled as a sequence of one-       *)
(* character strings, a pattern tree as nested records shaped like the     *)
(* regexpp AST.  Each component has its own specification; the variables   *)
(* of the other components stay at their initial value.                    *)
(***************************************************************************)
EXTENDS Integers, Sequences, FiniteSets, TLC

VARIABLES
    pPhase,   \* parser: "idle" before the call of parsePattern, "done" after
    pIn,      \* parser: the arguments of parsePattern
    pOut,     \* parser: what the call produced
    iPhase,   \* intent scorer: "idle" before the call of inferIntent, "done" after
    iIn,      \* intent scorer: the arguments [ast, flags]
    iF,       \* intent scorer: the local f, the extracted features
    iCands,   \* intent scorer: the local cands, clamped and sorted
    iOut,     \* intent scorer: the returned [label, confidence, rationale]
    rPhase,   \* risk detector: "idle" before the call of detectRisks, "done" after
    rIn,      \* risk detector: the arguments [ast, flags, sampleText, ctx]
    rOut,     \* risk detector: [threw, warnings]
    rProbes,  \* risk detector: the calls of dynamicBacktrackingProbe, [flags] each
    ePhase,   \* estimator: "idle" before the call of estimateFalsePosNeg, "done" after
    eIn,      \* estimator: the argument [ast, pattern, flagsStr, sampleText, matches, guard]
    eOut,     \* estimator: the outcome, the returned object and work.used at exit
    xPhase,   \* explainer: "idle" before the call of explainPattern, "done" after
    xIn,      \* explainer: the arguments [ast, flags]
    xOut,     \* explainer: the returned [summary, components, constraints]
    uPc,      \* page: the position of runAnalysis ("load" before init, "idle" between runs)
    uDom,     \* page: the values of the pattern field, the flag boxes and the sample field
    uTimer,   \* page: the debounce timer is armed
    uRun,     \* page: the locals of the current run of runAnalysis
    uCalls,   \* page: the components called in the current run, in order
    uStatus,  \* page: the text of the compile status pill
    wWalker,  \* walk: which of the three walk functions runs
    wGraph,   \* walk: the objects of the tree and its root
    wStack,   \* walk: the frames of the recursion, innermost last
    wSeen,    \* walk: the WeakSet seen
    wVisited, \* walk: the nodes fn was called on, in order
    wStatus,  \* walk: "idle", "running", "returned" or "overflow" (RangeError)
    mPhase,   \* match preview: "idle" before the call of executeRegex, "done" after
    mIn,      \* match preview: the arguments [pattern, flags, text, guard]
    mOut,     \* match preview: the returned [matches]
    sGiven,   \* the objects the consumers are handed, as they were built
    sNow,     \* the same objects as the calls so far left them
    sCalls,   \* how many calls were made so far
    sOut,     \* consumer -> what its latest call returned
    dTimer,   \* debounce: the variable debounceTimer, 0 for null
    dPending, \* debounce: the ids of the timers that are pending
    dIds,     \* debounce: how many timers were set so far
    dLast,    \* debounce: the event handled last (none, input, click, timer)
    dRuns,    \* debounce: how many times runAnalysis was called
    dBurst,   \* debounce: the timer runs since the last input event
    lPc,      \* match loop: position in executeRegex (idle, loop, done)
    lIn,      \* match loop: the arguments of executeRegex
    lLast,    \* match loop: re.lastIndex
    lSafety,  \* match loop: the counter safety
    lResults, \* match loop: the array results
    lFault    \* match loop: the exception the try block caught (none, compile, exec)

parseVars == <<pPhase, pIn, pOut>>
intentVars == <<iPhase, iIn, iF, iCands, iOut>>
riskVars == <<rPhase, rIn, rOut, rProbes>>
estVars == <<ePhase, eIn, eOut>>
explainVars == <<xPhase, xIn, xOut>>
runVars == <<uPc, uDom, uTimer, uRun, uCalls, uStatus>>
walkVars == <<wWalker, wGraph, wStack, wSeen, wVisited, wStatus>>
execVars == <<mPhase, mIn, mOut>>
sessVars == <<sGiven, sNow, sCalls, sOut>>
debVars == <<dTimer, dPending, dIds, dLast, dRuns, dBurst>>
loopVars == <<lPc, lIn, lLast, lSafety, lResults, lFault>>
vars == <<parseVars, intentVars, riskVars, estVars, explainVars, runVars, walkVars, execVars, sessVars, debVars, loopVars>>

(***************************************************************************)
(* Text helpers                                                            *)
(***************************************************************************)
RECURSIVE SeqsUpTo(_, _)
SeqsUpTo(S, n) ==
    IF n = 0 THEN {<<>>}
    ELSE LET shorter == SeqsUpTo(S, n - 1)
         IN  shorter \cup {Append(s, c) : s \in shorter, c \in S}

\* String.prototype.includes on character sequences
Includes(s, t) ==
    \E i \in 0..(Len(s) - Len(t)) :
        \A j \in 1..Len(t) : s[i + j] = t[j]

Range(s) == {s[i] : i \in 1..Len(s)}

\* F applied to the value of e: a local that is computed once and then read
\* many times (TLC evaluates an operator argument again at every use)
WithValue(e, F(_)) == CHOOSE r \in {F(x) : x \in {e}} : TRUE

(***************************************************************************)
(* Pattern Parser (parse.js)                                               *)
(***************************************************************************)
MaxBodyLen == 3
MaxFlagLen == 2

BodyAlphabet == {"a", "/", "\\", "(", ")"}
FlagAlphabet == {"g", "u", "x"}
FlagChars == {"g", "i", "m", "s", "u", "y"}

NoResult == [outcome |-> "none", ok |-> FALSE, message |-> ""]

ParserInputs ==
    {[isString |-> TRUE, body |-> b, flags |-> f] :
        b \in SeqsUpTo(BodyAlphabet, MaxBodyLen),
        f \in SeqsUpTo(FlagAlphabet, MaxFlagLen)}
    \cup {[isString |-> FALSE, body |-> <<>>, flags |-> <<>>]}

\* every flag character is one of the six flags and none occurs twice
FlagsOK(flags) ==
    /\ \A i \in 1..Len(flags) : flags[i] \in FlagChars
    /\ \A i, j \in 1..Len(flags) : i # j => flags[i] # flags[j]

\* Pattern syntax over BodyAlphabet: a backslash escapes the next character
\* (an identity escape of a letter is an error under the u flag), a backslash
\* at the end is an error, parentheses must balance.
RECURSIVE SyntaxScan(_, _, _, _)
SyntaxScan(text, i, depth, uFlag) ==
    IF i > Len(text) THEN depth = 0
    ELSE IF text[i] = "\\" THEN
        /\ i < Len(text)
        /\ ~(uFlag /\ text[i + 1] = "a")
        /\ SyntaxScan(text, i + 2, depth, uFlag)
    ELSE IF text[i] = "(" THEN SyntaxScan(text, i + 1, depth + 1, uFlag)
    ELSE IF text[i] = ")" THEN depth > 0 /\ SyntaxScan(text, i + 1, depth - 1, uFlag)
    ELSE SyntaxScan(text, i + 1, depth, uFlag)

PatternSyntaxOK(text, uFlag) == SyntaxScan(text, 1, 0, uFlag)

\* new RegExp(body, flags) does not throw
EngineCompiles(body, flags) ==
    FlagsOK(flags) /\ PatternSyntaxOK(body, "u" \in Range(flags))

\* patternBody.replace(/\//g, "\\/"): every '/' becomes '\/'
RECURSIVE escapeSlashes(_)
escapeSlashes(body) ==
    IF body = <<>> THEN <<>>
    ELSE (IF Head(body) = "/" THEN <<"\\", "/">> ELSE <<Head(body)>>)
         \o escapeSlashes(Tail(body))

buildLiteral(body, flags) == <<"/">> \o escapeSlashes(body) \o <<"/">> \o flags

\* the literal scanner: the index at which the body stops, 0 when the source
\* ends first
RECURSIVE eatRegExpBody(_, _, _, _, _)
eatRegExpBody(src, start, i, inClass, escaped) ==
    IF i > Len(src) THEN 0
    ELSE IF escaped THEN eatRegExpBody(src, start, i + 1, inClass, FALSE)
    ELSE IF src[i] = "\\" THEN eatRegExpBody(src, start, i + 1, inClass, TRUE)
    ELSE IF src[i] = "[" THEN eatRegExpBody(src, start, i + 1, TRUE, FALSE)
    ELSE IF src[i] = "]" THEN eatRegExpBody(src, start, i + 1, FALSE, FALSE)
    ELSE IF (src[i] = "/" /\ ~inClass) \/ (src[i] = "*" /\ i = start) THEN i
    ELSE eatRegExpBody(src, start, i + 1, inClass, FALSE)

\* parseRegExpLiteral(literal): [threw, message]
parseRegExpLiteral(src) ==
    LET stop == eatRegExpBody(src, 2, 2, FALSE, FALSE)
        flags == SubSeq(src, stop + 1, Len(src))
        body == SubSeq(src, 2, stop - 1)
    IN  IF stop = 0 THEN
            [threw |-> TRUE, message |-> "Unterminated regular expression"]
        ELSE IF stop = 2 \/ src[stop] # "/" THEN
            [threw |-> TRUE, message |-> "Unexpected character"]
        ELSE IF ~FlagsOK(flags) THEN
            [threw |-> TRUE, message |-> "Invalid flag"]
        ELSE IF ~PatternSyntaxOK(body, "u" \in Range(flags)) THEN
            [threw |-> TRUE, message |-> "Invalid regular expression"]
        ELSE [threw |-> FALSE, message |-> ""]

\* the body of the try block of parsePattern
parseTry(inp) ==
    IF ~inp.isString THEN
        [threw |-> TRUE, message |-> "patternBody.replace is not a function"]
    ELSE parseRegExpLiteral(buildLiteral(inp.body, inp.flags))

\* parsePattern without its catch clause
parsePatternNoCatch(inp) ==
    LET r == parseTry(inp)
    IN  IF r.threw THEN [outcome |-> "threw", ok |-> FALSE, message |-> r.message]
        ELSE [outcome |-> "returned", ok |-> TRUE, message |-> ""]

parsePattern(inp) ==
    LET r == parseTry(inp)
    IN  IF r.threw THEN
            [outcome |-> "returned", ok |-> FALSE,
             message |-> IF r.message # "" THEN r.message
                         ELSE "Invalid regular expression"]
        ELSE [outcome |-> "returned", ok |-> TRUE, message |-> ""]

(***************************************************************************)
(* Pattern tree.  Nodes are records with the fields of the corresponding   *)
(* regexpp node (type, start, end, raw and the fields of the node type);   *)
(* the parent back-reference is not stored, a tree input says separately   *)
(* whether its nodes carry one.  A field a node does not have is absent    *)
(* from the record, as it is absent from the object.                       *)
(***************************************************************************)
Infinity == 1000000

Has(n, f) == f \in DOMAIN n

RECURSIVE Flatten(_)
Flatten(ss) == IF ss = <<>> THEN <<>> ELSE Head(ss) \o Flatten(Tail(ss))

RECURSIVE JoinRaw(_, _)
JoinRaw(nodes, sep) ==
    IF nodes = <<>> THEN <<>>
    ELSE IF Len(nodes) = 1 THEN nodes[1].raw
    ELSE nodes[1].raw \o sep \o JoinRaw(Tail(nodes), sep)

DigitChars == <<"0", "1", "2", "3", "4", "5", "6", "7", "8", "9">>
Digits(n) ==
    IF n < 10 THEN <<DigitChars[n + 1]>>
    ELSE <<DigitChars[(n \div 10) + 1], DigitChars[(n % 10) + 1]>>

Character(raw) == [type |-> "Character", raw |-> raw]
CharacterSet(kind, raw) == [type |-> "CharacterSet", kind |-> kind, raw |-> raw]
Assertion(kind, raw) == [type |-> "Assertion", kind |-> kind, raw |-> raw]
CharacterClassRange(lo, hi) ==
    [type |-> "CharacterClassRange", min |-> Character(<<lo>>),
     max |-> Character(<<hi>>), raw |-> <<lo, "-", hi>>]
CharacterClass(negate, elements) ==
    [type |-> "CharacterClass", negate |-> negate, elements |-> elements,
     raw |-> (IF negate THEN <<"[", "^">> ELSE <<"[">>)
             \o JoinRaw(elements, <<>>) \o <<"]">>]
Alternative(elements) ==
    [type |-> "Alternative", elements |-> elements, raw |-> JoinRaw(elements, <<>>)]
Group(alternatives) ==
    [type |-> "Group", alternatives |-> alternatives,
     raw |-> <<"(", "?", ":">> \o JoinRaw(alternatives, <<"|">>) \o <<")">>]
CapturingGroup(alternatives) ==
    [type |-> "CapturingGroup", alternatives |-> alternatives,
     raw |-> <<"(">> \o JoinRaw(alternatives, <<"|">>) \o <<")">>]
Lookahead(alternatives) ==
    [type |-> "Assertion", kind |-> "lookahead", negate |-> FALSE,
     alternatives |-> alternatives,
     raw |-> <<"(", "?", "=">> \o JoinRaw(alternatives, <<"|">>) \o <<")">>]
Pattern(alternatives) ==
    [type |-> "Pattern", alternatives |-> alternatives,
     raw |-> JoinRaw(alternatives, <<"|">>)]

\* the text of a quantifier: the symbol form (* + ?) or the counting form
QuantifierText(min, max, greedy, braces) ==
    (IF ~braces /\ min = 0 /\ max = Infinity THEN <<"*">>
     ELSE IF ~braces /\ min = 1 /\ max = Infinity THEN <<"+">>
     ELSE IF ~braces /\ min = 0 /\ max = 1 THEN <<"?">>
     ELSE IF max = Infinity THEN <<"{">> \o Digits(min) \o <<",", "}">>
     ELSE IF max = min THEN <<"{">> \o Digits(min) \o <<"}">>
     ELSE <<"{">> \o Digits(min) \o <<",">> \o Digits(max) \o <<"}">>)
    \o (IF greedy THEN <<>> ELSE <<"?">>)

\* the Quantifier node of regexpp: it wraps its element
Quantifier(element, min, max, greedy, braces) ==
    [type |-> "Quantifier", min |-> min, max |-> max, greedy |-> greedy,
     element |-> element,
     raw |-> element.raw \o QuantifierText(min, max, greedy, braces)]

\* the children of a node in the key order of the object
Children(n) ==
    IF Has(n, "alternatives") THEN n.alternatives
    ELSE IF Has(n, "elements") THEN n.elements
    ELSE IF Has(n, "element") THEN <<n.element>>
    ELSE IF n.type = "CharacterClassRange" THEN <<n.min, n.max>>
    ELSE <<>>

\* how many characters of a node's raw text precede its first child, and how
\* many separate two children
ChildOffset(n) ==
    IF n.type = "Group" \/ (n.type = "Assertion" /\ Has(n, "alternatives")) THEN 3
    ELSE IF n.type = "CapturingGroup" THEN 1
    ELSE IF n.type = "CharacterClass" THEN (IF n.negate THEN 2 ELSE 1)
    ELSE 0
ChildSeparator(n) ==
    IF Has(n, "alternatives") \/ n.type = "CharacterClassRange" THEN 1 ELSE 0

\* the source span of every node: start and end offsets into the pattern
RECURSIVE Place(_, _)
RECURSIVE PlaceAll(_, _, _)
PlaceAll(nodes, off, sep) ==
    IF nodes = <<>> THEN <<>>
    ELSE <<Place(Head(nodes), off)>>
         \o PlaceAll(Tail(nodes), off + Len(Head(nodes).raw) + sep, sep)
Place(n, off) ==
    LET span == [start |-> off, end |-> off + Len(n.raw)]
        kids == PlaceAll(Children(n), off + ChildOffset(n), ChildSeparator(n))
    IN  IF Has(n, "alternatives") THEN span @@ [n EXCEPT !.alternatives = kids]
        ELSE IF Has(n, "elements") THEN span @@ [n EXCEPT !.elements = kids]
        ELSE IF Has(n, "element") THEN span @@ [n EXCEPT !.element = kids[1]]
        ELSE IF n.type = "CharacterClassRange" THEN
            span @@ [n EXCEPT !.min = kids[1], !.max = kids[2]]
        ELSE span @@ n

\* walk(node, fn): the nodes in the order fn is called on them (depth first,
\* pre-order, the 'parent' key skipped).  The trees built here share no node,
\* so the seen set never cuts a visit short.
RECURSIVE walk(_)
RECURSIVE walkAll(_)
walkAll(nodes) ==
    IF nodes = <<>> THEN <<>> ELSE walk(Head(nodes)) \o walkAll(Tail(nodes))
walk(n) == <<n>> \o walkAll(Children(n))

AnyNode(nodes, P(_)) == \E k \in 1..Len(nodes) : P(nodes[k])

(***************************************************************************)
(* Intent Scorer (intentmap.js).  Confidence is kept in thousandths: every *)
(* score is an integer, so 0.35 + score/100 * 0.6 is 350 + 6 * score.      *)
(***************************************************************************)
INTENT_CONFIDENCE_THRESHOLD == 600

INTENT_LABELS ==
    [
     GENERAL |-> "General pattern",
     EMAIL_LIKE |-> "Email-like identifier",
     URL_LIKE |-> "URL-like string",
     UUID |-> "UUID / GUID",
     IPV4 |-> "IPv4 address",
     IPV6 |-> "IPv6 address",
     ISO_DATE |-> "ISO 8601 date",
     TIME_24H |-> "24-hour time",
     TIMESTAMP |-> "Timestamp (date + time)",
     SEMVER |-> "Semantic version (SemVer-like)",
     HEX |-> "Hex string",
     ALPHANUM_ID |-> "Alphanumeric identifier",
     LOG_LEVEL |-> "Log level token (INFO/WARN/ERROR...)",
     FILE_PATH |-> "File path (basic)",
     PHONE_LIKE |-> "Phone-like number (basic)"
    ]

IsDigit(c) == c \in Range(DigitChars)
IsHex(c) == IsDigit(c) \/ c \in {"a", "b", "c", "d", "e", "f", "A", "B", "C", "D", "E", "F"}

At(text, i) == IF i >= 1 /\ i <= Len(text) THEN text[i] ELSE ""

HexRun(text, i, n) == \A k \in i..(i + n - 1) : IsHex(At(text, k))

\* /[0-9a-fA-F]{8}(-|\\-)[0-9a-fA-F]{4}(-|\\-)...[0-9a-fA-F]{12}/ from index i
RECURSIVE MatchHexChunks(_, _, _)
MatchHexChunks(text, i, chunks) ==
    LET j == i + Head(chunks)
    IN  /\ HexRun(text, i, Head(chunks))
        /\ \/ Len(chunks) = 1
           \/ At(text, j) = "-" /\ MatchHexChunks(text, j + 1, Tail(chunks))
           \/ /\ At(text, j) = "\\" /\ At(text, j + 1) = "-"
              /\ MatchHexChunks(text, j + 2, Tail(chunks))

MatchesUUIDHint(text) ==
    \E i \in 1..Len(text) : MatchHexChunks(text, i, <<8, 4, 4, 4, 12>>)

\* /\d+\\?\.\d+\\?\.\d+/ from index i: a run of digits, then 'dots' more
\* times an optional backslash, a dot and a run of digits
RECURSIVE MatchDigitRuns(_, _, _)
MatchDigitRuns(text, i, dots) ==
    /\ IsDigit(At(text, i))
    /\ \/ dots = 0
       \/ MatchDigitRuns(text, i + 1, dots)
       \/ At(text, i + 1) = "." /\ MatchDigitRuns(text, i + 2, dots - 1)
       \/ /\ At(text, i + 1) = "\\" /\ At(text, i + 2) = "."
          /\ MatchDigitRuns(text, i + 3, dots - 1)

MatchesSemverHint(text) == \E i \in 1..Len(text) : MatchDigitRuns(text, i, 2)

\* /\d\{1,3\}.*\\\..*\\\..*\\\./
MatchesIPv4Hint(text) ==
    \E i \in 1..Len(text) :
        /\ IsDigit(text[i])
        /\ [k \in 1..5 |-> At(text, i + k)] = <<"{", "1", ",", "3", "}">>
        /\ Cardinality({k \in (i + 6)..Len(text) :
                           text[k] = "\\" /\ At(text, k + 1) = "."}) >= 3

\* n?.quantifier ?? (n?.type === "Quantifier" ? n : null), when not null
HasQ(n) == Has(n, "quantifier") \/ n.type = "Quantifier"
QOf(n) == IF Has(n, "quantifier") THEN n.quantifier ELSE n

featuresOf(N, rawPattern, flags) ==
    LET RawHas(t) == \E k \in 1..Len(N) : Includes(N[k].raw, t)
        IsAssertion(k, kind) == N[k].type = "Assertion" /\ N[k].kind = kind
    IN  [hasStartAnchor |-> \E k \in 1..Len(N) : IsAssertion(k, "start"),
         hasEndAnchor |-> \E k \in 1..Len(N) : IsAssertion(k, "end"),
         hasWordBoundary |-> \E k \in 1..Len(N) : IsAssertion(k, "wordBoundary"),
         hasAlternation |->
            \E k \in 1..Len(N) :
                \/ N[k].type = "AlternationExpression"
                \/ /\ N[k].type = "Alternative"
                   \* n.parent.type: the parent is the node that holds n
                   /\ \E p \in 1..Len(N) :
                        /\ N[p].type = "AlternationExpression"
                        /\ N[k] \in Range(Children(N[p])),
         hasLookaround |->
            \E k \in 1..Len(N) :
                IsAssertion(k, "lookahead") \/ IsAssertion(k, "lookbehind"),
         usesAtSign |-> RawHas(<<"@">>),
         usesColon |-> RawHas(<<":">>),
         usesSlash |-> RawHas(<<"/">>),
         usesDotLiteral |-> RawHas(<<"\\", ".">>),
         usesHyphenLiteral |-> RawHas(<<"-">>),
         usesUnderscoreLiteral |-> RawHas(<<"_">>),
         usesPlusLiteral |-> RawHas(<<"+">>),
         usesQuestionLiteral |-> RawHas(<<"?">>),
         usesDigitClass |->
            RawHas(<<"\\", "d">>) \/ RawHas(<<"[", "0", "-", "9", "]">>),
         usesHexClass |->
            \/ RawHas(<<"[", "0", "-", "9", "a", "-", "f", "A", "-", "F", "]">>)
            \/ RawHas(<<"\\", "p", "{", "H", "e", "x", "_", "D", "i", "g", "i", "t", "}">>),
         usesBraceQuantifier |->
            \E k \in 1..Len(N) : HasQ(N[k]) /\ Has(QOf(N[k]), "min"),
         containsExactCounts |->
            {QOf(N[k]).min : k \in {x \in 1..Len(N) :
                /\ HasQ(N[x])
                /\ Has(QOf(N[x]), "min") /\ Has(QOf(N[x]), "max")
                /\ QOf(N[x]).min = QOf(N[x]).max}},
         containsUUIDHyphenPattern |-> MatchesUUIDHint(rawPattern),
         containsSemverDots |-> MatchesSemverHint(rawPattern),
         containsIPv4DotStructure |->
            Includes(rawPattern, <<"\\", ".">>) /\ MatchesIPv4Hint(rawPattern),
         containsIPv6ColonStructure |-> 
             Cardinality({k \in 1..Len(rawPattern) : rawPattern[k] = ":"}) >= 2]

extractFeatures(ast, flags) == featuresOf(walk(ast), ast.raw, flags)

\* a field of the feature record that was never set reads as undefined
Feature(f, name) == IF Has(f, name) THEN f[name] ELSE FALSE

\* one candidate block: each rule <<condition, points, rationale>> that holds
\* adds its points and pushes its rationale
RECURSIVE ScoreOf(_)
ScoreOf(rules) ==
    IF rules = <<>> THEN 0
    ELSE (IF Head(rules)[1] THEN Head(rules)[2] ELSE 0) + ScoreOf(Tail(rules))
RECURSIVE RationaleOf(_)
RationaleOf(rules) ==
    IF rules = <<>> THEN <<>>
    ELSE (IF Head(rules)[1] THEN <<Head(rules)[3]>> ELSE <<>>) \o RationaleOf(Tail(rules))
Candidate(label, rules) ==
    [label |-> label, score |-> ScoreOf(rules), rationale |-> RationaleOf(rules)]

\* astRawFallbackFromFeatures returns undefined: the log-level words are never seen
astRawFallbackFromFeatures(f) == FALSE

emailRulesWeak(f, flags) ==
    <<<<f.usesAtSign, 5, "Contains '@'">>,
      <<f.usesDotLiteral, 15, "Uses '.' (likely domain separator)">>,
      <<f.hasStartAnchor /\ f.hasEndAnchor, 10, "Anchored to whole string">>,
      <<Feature(f, "usesWordBoundary"), 5, "Uses word boundary">>,
      <<f.hasAlternation, -5, "Alternation reduces certainty">> >>

emailRules(f, flags) ==
    <<<<f.usesAtSign, 45, "Contains '@'">>,
      <<f.usesDotLiteral, 15, "Uses '.' (likely domain separator)">>,
      <<f.hasStartAnchor /\ f.hasEndAnchor, 10, "Anchored to whole string">>,
      <<Feature(f, "usesWordBoundary"), 5, "Uses word boundary">>,
      <<f.hasAlternation, -5, "Alternation reduces certainty">> >>

scoreCandidates(f, flags) ==
    LET has(n) == n \in f.containsExactCounts
        anchored == f.hasStartAnchor /\ f.hasEndAnchor
    IN <<
    Candidate(INTENT_LABELS.EMAIL_LIKE, emailRules(f, flags)),
    Candidate(INTENT_LABELS.URL_LIKE, <<
        <<f.usesSlash, 25, "Contains '/'">>,
        <<f.usesColon, 25, "Contains ':' (likely scheme/port)">>,
        <<f.usesDotLiteral, 10, "Uses '.' (likely host/domain)">>,
        <<f.hasStartAnchor, 5, "Has start anchor">>,
        <<flags.i, 3, "Case-insensitive flag often used for URLs">> >>),
    Candidate(INTENT_LABELS.UUID, <<
        <<f.containsUUIDHyphenPattern, 70, "Matches INTENT_LABELS.UUID hyphen chunk structure">>,
        <<f.usesHexClass, 20, "Uses hex character class">>,
        <<has(8) /\ has(12), 10, "Has exact chunk lengths common to UUIDs">> >>),
    Candidate(INTENT_LABELS.IPV4, <<
        <<f.containsIPv4DotStructure, 60, "Has repeated dot-separated numeric structure">>,
        <<f.usesDigitClass, 10, "Uses digit class">>,
        <<f.usesBraceQuantifier, 5, "Uses numeric length quantifiers">> >>),
    Candidate(INTENT_LABELS.IPV6, <<
        <<f.containsIPv6ColonStructure, 55, "Contains multiple ':' separators">>,
        <<f.usesHexClass, 15, "Uses hex character class">> >>),
    Candidate(INTENT_LABELS.ISO_DATE, <<
        <<f.usesDigitClass, 15, "Uses digit class">>,
        <<f.usesHyphenLiteral, 20, "Uses '-' separators">>,
        <<has(4) /\ has(2), 25, "Uses 4 and 2 digit chunk lengths">>,
        <<anchored, 5, "Anchored to whole string">> >>),
    Candidate(INTENT_LABELS.TIME_24H, <<
        <<f.usesColon, 30, "Uses ':' separators">>,
        <<has(2), 20, "Uses 2-digit chunks">>,
        <<f.usesDigitClass, 10, "Uses digit class">> >>),
    Candidate(INTENT_LABELS.TIMESTAMP, <<
        <<f.usesHyphenLiteral, 15, "Has '-' separators (date-like)">>,
        <<f.usesColon, 15, "Has ':' separators (time-like)">>,
        <<has(4) /\ has(2), 10, "Has common date/time chunk lengths">> >>),
    Candidate(INTENT_LABELS.SEMVER, <<
        <<f.containsSemverDots, 65, "Contains digit-dot-digit-dot-digit structure">>,
        <<anchored, 5, "Anchored to whole string">> >>),
    Candidate(INTENT_LABELS.HEX, <<
        <<f.usesHexClass, 55, "Uses hex character class">>,
        <<anchored, 5, "Anchored to whole string">>,
        <<has(32) \/ has(40) \/ has(64), 10, "Uses common hex digest lengths (32/40/64)">> >>),
    Candidate(INTENT_LABELS.ALPHANUM_ID, <<
        <<anchored, 15, "Anchored to whole string">>,
        <<f.usesUnderscoreLiteral, 5, "Allows '_'">>,
        <<f.usesBraceQuantifier, 10, "Has explicit length bounds">>,
        <<f.hasWordBoundary, 5, "Uses word boundary">> >>),
    Candidate(INTENT_LABELS.LOG_LEVEL, <<
        <<f.hasAlternation, 15, "Uses alternation (token choices)">>,
        <<astRawFallbackFromFeatures(f), 60, "Contains common log level words">> >>),
    Candidate(INTENT_LABELS.PHONE_LIKE, <<
        <<f.usesPlusLiteral, 10, "Allows '+' prefix">>,
        <<f.usesDigitClass, 15, "Uses digit class">>,
        <<f.usesHyphenLiteral, 10, "Allows '-' separators">> >>),
    Candidate(INTENT_LABELS.FILE_PATH, <<
        <<f.usesSlash, 25, "Contains '/' separators">>,
        <<f.usesDotLiteral, 5, "Uses '.' (extension-like)">> >>) >>

Min2(a, b) == IF a < b THEN a ELSE b

\* clamp01 on thousandths
clamp01(x) == IF x < 0 THEN 0 ELSE IF x > 1000 THEN 1000 ELSE x

toConfidenceUncapped(bestScore) == clamp01(350 + bestScore * 6)

toConfidence(bestScore) == clamp01(Min2(350 + bestScore * 6, 900))

\* .map(c => ({...c, score: Math.max(0, Math.min(100, c.score))}))
clampScores(cands) ==
    [k \in 1..Len(cands) |->
        [cands[k] EXCEPT !.score = 
            IF cands[k].score < 0 THEN 0 ELSE Min2(100, cands[k].score)]]

\* a sort that puts a candidate before the earlier ones of the same score
RECURSIVE insertBeforeTies(_, _)
insertBeforeTies(sorted, c) ==
    IF sorted = <<>> THEN <<c>>
    ELSE IF Head(sorted).score > c.score
         THEN <<Head(sorted)>> \o insertBeforeTies(Tail(sorted), c)
         ELSE <<c>> \o sorted

\* .sort((a, b) => b.score - a.score): stable, descending by score
RECURSIVE insertByScore(_, _)
insertByScore(sorted, c) ==
    IF sorted = <<>> THEN <<c>>
    ELSE IF Head(sorted).score >= c.score
         THEN <<Head(sorted)>> \o insertByScore(Tail(sorted), c)
         ELSE <<c>> \o sorted
RECURSIVE sortByScore(_)
sortByScore(cands) ==
    IF cands = <<>> THEN <<>>
    ELSE insertByScore(sortByScore(SubSeq(cands, 1, Len(cands) - 1)), cands[Len(cands)])

\* the part of inferIntent after the sort, with a fallback that returns the
\* computed confidence unchanged
pickIntentFallbackUncapped(cands) ==
    LET best == cands[1]
        confidence == toConfidence(best.score)
    IN  IF confidence < INTENT_CONFIDENCE_THRESHOLD THEN
            [label |-> INTENT_LABELS.GENERAL, confidence |-> confidence,
             rationale |-> <<"No strong intent signals were detected.">>]
        ELSE [label |-> best.label, confidence |-> confidence,
              rationale |-> SubSeq(best.rationale, 1, Min2(3, Len(best.rationale)))]

\* the part of inferIntent after the sort, with the rationale left whole
pickIntentUntrimmed(cands) ==
    LET best == cands[1]
        confidence == toConfidence(best.score)
    IN  IF confidence < INTENT_CONFIDENCE_THRESHOLD THEN
            [label |-> INTENT_LABELS.GENERAL,
             confidence |-> Min2(550, IF confidence = 0 THEN 500 ELSE confidence),
             rationale |-> <<"No strong intent signals were detected.">>]
        ELSE [label |-> best.label, confidence |-> confidence,
              rationale |-> best.rationale]

\* the part of inferIntent after the sort: best, confidence, fallback, rationale
pickIntent(cands) ==
    LET best == cands[1]
        confidence == toConfidence(best.score)
        rationale == SubSeq(best.rationale, 1, Min2(3, Len(best.rationale)))
    IN  IF confidence < INTENT_CONFIDENCE_THRESHOLD THEN
            [label |-> INTENT_LABELS.GENERAL,
             confidence |-> Min2(550, IF confidence = 0 THEN 500 ELSE confidence),
             rationale |-> <<"No strong intent signals were detected.">>]
        ELSE [label |-> best.label, confidence |-> confidence,
              rationale |->
                IF rationale = <<>>
                THEN <<"Matched common structural signals for this intent.">>
                ELSE rationale]

(***************************************************************************)
(* Risk Detector (risks.js).  A message is the sequence of its words, as   *)
(* written in the template and split at the spaces.                        *)
(***************************************************************************)
\* the id table with the ids of the first and the eleventh rule exchanged
RISKExchanged ==
    [
     NESTED_QUANTIFIERS |-> "RISK_STICKY_WITH_GLOBAL",
     POTENTIAL_BACKTRACKING |-> "RISK_POTENTIAL_BACKTRACKING",
     AMBIGUOUS_WILDCARD |-> "RISK_AMBIGUOUS_WILDCARD",
     UNANCHORED_MISMATCH |-> "RISK_UNANCHORED_MISMATCH",
     DOTALL_EXPECTED |-> "RISK_DOTALL_EXPECTED",
     MULTILINE_ANCHOR_CONFUSION |-> "RISK_MULTILINE_ANCHOR_CONFUSION",
     EMPTY_ALTERNATION |-> "RISK_EMPTY_ALTERNATION",
     OVERBROAD_CLASS |-> "RISK_OVERBROAD_CLASS",
     REDUNDANT_QUANTIFIERS |-> "RISK_REDUNDANT_QUANTIFIERS",
     LOOKAROUND_COMPLEXITY |-> "RISK_LOOKAROUND_COMPLEXITY",
     STICKY_WITH_GLOBAL |-> "RISK_NESTED_QUANTIFIERS",
     UNICODE_FLAG_MISMATCH |-> "RISK_UNICODE_FLAG_MISMATCH"
    ]

RISK ==
    [
     NESTED_QUANTIFIERS |-> "RISK_NESTED_QUANTIFIERS",
     POTENTIAL_BACKTRACKING |-> "RISK_POTENTIAL_BACKTRACKING",
     AMBIGUOUS_WILDCARD |-> "RISK_AMBIGUOUS_WILDCARD",
     UNANCHORED_MISMATCH |-> "RISK_UNANCHORED_MISMATCH",
     DOTALL_EXPECTED |-> "RISK_DOTALL_EXPECTED",
     MULTILINE_ANCHOR_CONFUSION |-> "RISK_MULTILINE_ANCHOR_CONFUSION",
     EMPTY_ALTERNATION |-> "RISK_EMPTY_ALTERNATION",
     OVERBROAD_CLASS |-> "RISK_OVERBROAD_CLASS",
     REDUNDANT_QUANTIFIERS |-> "RISK_REDUNDANT_QUANTIFIERS",
     LOOKAROUND_COMPLEXITY |-> "RISK_LOOKAROUND_COMPLEXITY",
     STICKY_WITH_GLOBAL |-> "RISK_STICKY_WITH_GLOBAL",
     UNICODE_FLAG_MISMATCH |-> "RISK_UNICODE_FLAG_MISMATCH"
    ]

T ==
    [
     potentialBacktrackingTitle |-> "Potential performance risk",
     potentialBacktrackingMsg |->
         <<"This", "pattern", "can", "take", "a", "long", "time", "on", "certain",
         "inputs", "(especially", "long", "non-matching", "strings).", "Treat",
         "this", "as", "a", "potential", "risk,", "not", "a", "guarantee.">>,
     nestedQuantifiersTitle |-> "Nested quantifiers",
     nestedQuantifiersMsg |->
         <<"A", "quantified", "group", "contains", "another", "quantifier",
         "(example:", "(a+)+).", "This", "is", "a", "common", "cause", "of",
         "catastrophic", "backtracking.">>,
     ambiguousWildcardTitle |-> "Greedy wildcard may be too broad",
     ambiguousWildcardMsg |->
         <<"A", "greedy", "wildcard", "like", ".*", "or", ".+", "can", "swallow",
         "more", "than", "intended.", "Consider", "anchoring", "or",
         "narrowing", "the", "match.">>,
     unanchoredMismatchTitle |-> "Anchoring looks incomplete",
     unanchoredMismatchMsg |->
         <<"This", "pattern", "has", "only", "one", "anchor", "(^", "or", "$).",
         "If", "you", "intended", "a", "full-string", "match,", "you",
         "usually", "want", "both.">>,
     dotallExpectedTitle |-> "Dot does not match newlines",
     dotallExpectedMsg |->
         <<"Your", "sample", "contains", "newlines,", "but", "'.'", "will",
         "stop", "at", "newline", "unless", "the", "'s'", "flag", "is", "set.">>,
     multilineAnchorConfusionTitle |-> "Multiline anchoring can surprise you",
     multilineAnchorConfusionMsg |->
         <<"With", "the", "'m'", "flag,", "^", "and", "$", "match", "line",
         "boundaries,", "not", "just", "start/end", "of", "the", "whole",
         "text.">>,
     emptyAltTitle |-> "Empty alternative",
     emptyAltMsg |->
         <<"An", "alternation", "contains", "an", "empty", "branch", "(example:",
         "a|).", "This", "may", "match", "unexpectedly.">>,
     overbroadClassTitle |-> "Over-broad character class",
     overbroadClassMsg |->
         <<"A", "character", "class", "like", "[\\s\\S]", "or", "[\\d\\D]",
         "matches", "almost", "everything.", "That", "can", "be", "correct,",
         "but", "it", "often", "hides", "mistakes.">>,
     redundantQuantTitle |-> "Redundant quantifier",
     redundantQuantMsg |->
         <<"Quantifiers", "like", "{0,}", "or", "{1,}", "are", "equivalent", "to",
         "*", "or", "+.", "This", "can", "reduce", "readability.">>,
     lookaroundComplexTitle |-> "Lookarounds increase complexity",
     lookaroundComplexMsg |->
         <<"Lookaheads/lookbehinds", "can", "be", "correct,", "but", "they",
         "make", "the", "regex", "harder", "to", "reason", "about.",
         "Double-check", "edge", "cases.">>,
     stickyWithGlobalTitle |-> "Sticky + global flags",
     stickyWithGlobalMsg |->
         <<"Using", "both", "'y'", "(sticky)", "and", "'g'", "(global)", "is",
         "unusual.", "Make", "sure", "you", "intended", "sticky", "matching",
         "behavior.">>,
     unicodeFlagMismatchTitle |-> "Unicode-related behavior",
     unicodeFlagMismatchMsg |->
         <<"Unicode", "escapes/properties", "can", "behave", "differently",
         "depending", "on", "the", "'u'", "flag.", "Verify", "the", "flag",
         "matches", "your", "intent.">>
    ]

spanOf(n) == [start |-> n.start, end |-> n.end]

\* the spans of the nodes of a walk that satisfy P, in visiting order
SpansWhere(N, P(_)) ==
    LET hits == SelectSeq(N, P)
    IN  [k \in 1..Len(hits) |-> spanOf(hits[k])]

isDot(n) == n.type = "CharacterSet" /\ n.kind = "dot"

isGreedyDotQuantified(node) ==
    LET el == IF Has(node, "element") THEN node.element ELSE node
        q == node.quantifier
        min == IF Has(q, "min") THEN q.min ELSE 1
        max == IF Has(q, "max") THEN q.max ELSE Infinity
    IN  /\ Has(node, "quantifier")
        /\ isDot(el)
        /\ q.greedy # FALSE
        /\ (max = Infinity \/ max > min)

\* n?.quantifier != null || n?.type === "Quantifier"
hasQuant(n) == Has(n, "quantifier") \/ n.type = "Quantifier"

\* n?.element ?? n?.target ?? null, when not null

nestedAt(n) ==
    /\ hasQuant(n)
    /\ Has(n, "element") \/ Has(n, "target")
    /\ AnyNode(walk(IF Has(n, "element") THEN n.element ELSE n.target),
               LAMBDA inner : inner # n /\ hasQuant(inner))

\* detectNestedQuantifiers: the spans, <<>> standing for null
detectNestedQuantifiers(ast) == SpansWhere(walk(ast), nestedAt)

backtrackingShapeAt(n) ==
    /\ Has(n, "quantifier") /\ Has(n, "element")
    /\ n.quantifier.greedy # FALSE
    /\ ~Has(n.quantifier, "max")
    /\ LET inner == walk(n.element)
           innerDotQ == AnyNode(inner, isGreedyDotQuantified)
           innerAlt == AnyNode(inner, LAMBDA x :
                            x.type = "AlternationExpression" \/ x.type = "Alternative")
           innerQuant == AnyNode(inner, LAMBDA x : x # n /\ hasQuant(x))
       IN  innerDotQ \/ (innerAlt /\ innerQuant)

detectObviousBacktrackingShapes(ast) == SpansWhere(walk(ast), backtrackingShapeAt)

detectAnchors(ast) ==
    [hasStart |-> AnyNode(walk(ast), LAMBDA n : n.type = "Assertion" /\ n.kind = "start"),
     hasEnd |-> AnyNode(walk(ast), LAMBDA n : n.type = "Assertion" /\ n.kind = "end")]

detectEmptyAlternation(ast) ==
    SpansWhere(walk(ast), LAMBDA n :
        n.type = "Alternative" /\ Has(n, "elements") /\ n.elements = <<>>)

detectOverbroadClass(ast) ==
    SpansWhere(walk(ast), LAMBDA n :
        /\ n.type = "CharacterClass"
        /\ \/ Includes(n.raw, <<"\\", "s", "\\", "S">>)
           \/ Includes(n.raw, <<"\\", "d", "\\", "D">>)
           \/ Includes(n.raw, <<"\\", "w", "\\", "W">>))

\* detectRedundantQuantifiers: spans.push(...) returns a number, so the
\* .filter call on it throws as soon as one of the three tests holds; when
\* none holds spans stays empty and the result is null.
redundantAt(n) ==
    /\ HasQ(n)
    /\ LET q == QOf(n)
       IN  \/ q.min = 0 /\ ~Has(q, "max")
           \/ q.min = 1 /\ ~Has(q, "max")
           \/ q.min = 0 /\ Has(q, "max") /\ q.max = 1
detectRedundantQuantifiersThrows(ast) == AnyNode(walk(ast), redundantAt)

detectLookarounds(ast) ==
    SpansWhere(walk(ast), LAMBDA n :
        n.type = "Assertion" /\ (n.kind = "lookahead" \/ n.kind = "lookbehind"))

detectMultilineAnchorConfusion(flags, hasAnchors) == flags.m /\ hasAnchors

\* sampleText: [given, text]; undefined and "" are both falsy
detectDotallExpected(ast, flags, sampleText) ==
    /\ ~flags.s
    /\ sampleText.given /\ sampleText.text # <<>>
    /\ "\n" \in Range(sampleText.text)
    /\ AnyNode(walk(ast), isDot)

detectStickyWithGlobal(flags) == flags.y /\ flags.g

detectUnicodeFlagMismatch(ast, flags) ==
    /\ ~flags.u
    /\ AnyNode(walk(ast), LAMBDA n :
            \/ Includes(n.raw, <<"\\", "p", "{">>)
            \/ Includes(n.raw, <<"\\", "P", "{">>)
            \/ Includes(n.raw, <<"\\", "u", "{">>))

\* dynamicBacktrackingProbe: the note when the timed test took more than 40 ms;
\* ctx.probe is what the wall clock shows ("slow", "fast") or "fails" when the
\* compile or the test throws
dynamicBacktrackingProbe(ctx) ==
    IF ctx.probe = "slow" THEN <<"Slow probe on a short non-match test.">> ELSE <<>>

Warning(id, severity, title, message) ==
    [id |-> id, severity |-> severity, title |-> title, message |-> message]
WarningWith(id, severity, title, message, spans) ==
    [id |-> id, severity |-> severity, title |-> title, message |-> message,
     evidence |-> [patternSpans |-> spans]]

\* rule 2 at medium whatever rule 1 found
backtrackingSeverityMedium(nested) == "medium"

\* severity: nested ? "high" : "medium"
backtrackingSeverity(nested) == IF nested # <<>> THEN "high" ELSE "medium"

\* detectRisks: [threw, warnings]
detectRisks(ast, flags, sampleText, ctx) ==
    LET anchors == detectAnchors(ast)
        hasStart == anchors.hasStart
        hasEnd == anchors.hasEnd
        isExtractionMode == flags.g
        nested == detectNestedQuantifiers(ast)
        backShapes == detectObviousBacktrackingShapes(ast)
        examples == IF ctx.given THEN dynamicBacktrackingProbe(ctx) ELSE <<>>
        dotSpans == SpansWhere(walk(ast), isGreedyDotQuantified)
        emptyAlt == detectEmptyAlternation(ast)
        overbroad == detectOverbroadClass(ast)
        look == detectLookarounds(ast)
        rules1to8 ==
            (IF nested # <<>> THEN
                <<WarningWith(RISK.NESTED_QUANTIFIERS, "high", T.nestedQuantifiersTitle,
                              T.nestedQuantifiersMsg, nested)>>
             ELSE <<>>)
            \o (IF backShapes # <<>> THEN
                <<[id |-> RISK.POTENTIAL_BACKTRACKING,
                   severity |-> backtrackingSeverity(nested),
                   title |-> T.potentialBacktrackingTitle,
                   message |-> T.potentialBacktrackingMsg,
                   evidence |-> [patternSpans |-> backShapes, examples |-> examples]]>>
             ELSE <<>>)
            \o (IF dotSpans # <<>> THEN
                <<WarningWith(RISK.AMBIGUOUS_WILDCARD, "medium", T.ambiguousWildcardTitle,
                              T.ambiguousWildcardMsg, dotSpans)>>
             ELSE <<>>)
            \o (IF ~isExtractionMode /\ (hasStart # hasEnd) THEN
                <<WarningWith(RISK.UNANCHORED_MISMATCH, "low", T.unanchoredMismatchTitle,
                              T.unanchoredMismatchMsg, <<spanOf(ast)>>)>>
             ELSE <<>>)
            \o (IF detectDotallExpected(ast, flags, sampleText) THEN
                <<Warning(RISK.DOTALL_EXPECTED, "low", T.dotallExpectedTitle, T.dotallExpectedMsg)>>
             ELSE <<>>)
            \o (IF detectMultilineAnchorConfusion(flags, hasStart \/ hasEnd) THEN
                <<Warning(RISK.MULTILINE_ANCHOR_CONFUSION, "info",
                          T.multilineAnchorConfusionTitle, T.multilineAnchorConfusionMsg)>>
             ELSE <<>>)
            \o (IF emptyAlt # <<>> THEN
                <<WarningWith(RISK.EMPTY_ALTERNATION, "medium", T.emptyAltTitle, T.emptyAltMsg,
                              emptyAlt)>>
             ELSE <<>>)
            \o (IF overbroad # <<>> THEN
                <<WarningWith(RISK.OVERBROAD_CLASS, "info", T.overbroadClassTitle,
                              T.overbroadClassMsg, overbroad)>>
             ELSE <<>>)
        rules10to12 ==
            (IF look # <<>> THEN
                <<WarningWith(RISK.LOOKAROUND_COMPLEXITY, "info", T.lookaroundComplexTitle,
                              T.lookaroundComplexMsg, look)>>
             ELSE <<>>)
            \o (IF detectStickyWithGlobal(flags) THEN
                <<Warning(RISK.STICKY_WITH_GLOBAL, "info", T.stickyWithGlobalTitle,
                          T.stickyWithGlobalMsg)>>
             ELSE <<>>)
            \o (IF detectUnicodeFlagMismatch(ast, flags) THEN
                <<Warning(RISK.UNICODE_FLAG_MISMATCH, "low", T.unicodeFlagMismatchTitle,
                          T.unicodeFlagMismatchMsg)>>
             ELSE <<>>)
    IN  IF detectRedundantQuantifiersThrows(ast)
        THEN [threw |-> TRUE, warnings |-> <<>>]
        ELSE [threw |-> FALSE, warnings |-> rules1to8 \o rules10to12]

(***************************************************************************)
(* False positive / false negative estimator (fpfn-rules.js).  The sample  *)
(* text is split into lines that nothing reads afterwards; the lines are   *)
(* left out.                                                               *)
(***************************************************************************)
FP_FN_LIMIT == 6


\* "U+2705" below stands for the emoji appended by rule E, one UTF-16 unit.

\* case mapping over the letters of the text alphabet
Upper(c) == CASE c = "a" -> "A" [] c = "b" -> "B" [] OTHER -> c
Lower(c) == CASE c = "A" -> "a" [] c = "B" -> "b" [] OTHER -> c
IsLetter(c) == c \in {"a", "b", "A", "B"}
toggleCase(s) ==
    [k \in 1..Len(s) |-> IF s[k] = Upper(s[k]) THEN Lower(s[k]) ELSE Upper(s[k])]

\* s.replace(/c/g, r)
RECURSIVE replaceAll(_, _, _)
replaceAll(s, c, r) ==
    IF s = <<>> THEN <<>>
    ELSE (IF Head(s) = c THEN r ELSE <<Head(s)>>) \o replaceAll(Tail(s), c, r)

\* s.replace(/[class]/, r): the first character of the class only
replaceFirst(s, InClass(_), r) ==
    LET hits == {k \in 1..Len(s) : InClass(s[k])}
    IN  IF hits = {} THEN s
        ELSE LET k == CHOOSE x \in hits : \A y \in hits : x <= y
             IN  SubSeq(s, 1, k - 1) \o r \o SubSeq(s, k + 1, Len(s))

\* flagsStr.replace("g", ""): the first g only
stripFirstG(flagsStr) == replaceFirst(flagsStr, LAMBDA c : c = "g", <<>>)

\* the elements of a list without repetitions, in the order of their first
\* occurrence
RECURSIVE DistinctFrom(_, _, _)
DistinctFrom(arr, k, out) ==
    IF k > Len(arr) THEN out
    ELSE WithValue(IF arr[k] \in Range(out) THEN out ELSE Append(out, arr[k]),
                   LAMBDA next : DistinctFrom(arr, k + 1, next))

Distinct(arr) == WithValue(arr, LAMBDA a : DistinctFrom(a, 1, <<>>))

RECURSIVE uniqueLimitedFrom(_, _, _, _)
uniqueLimitedFrom(arr, k, out, limit) ==
    IF k > Len(arr) THEN out
    ELSE IF arr[k] = <<>> \/ arr[k] \in Range(out) THEN
        uniqueLimitedFrom(arr, k + 1, out, limit)
    ELSE IF Len(out) + 1 >= limit THEN Append(out, arr[k])
    ELSE WithValue(Append(out, arr[k]),
                   LAMBDA next : uniqueLimitedFrom(arr, k + 1, next, limit))

uniqueLimited(arr, limit) ==
    WithValue(arr, LAMBDA a : uniqueLimitedFrom(a, 1, <<>>, limit))

\* the estimator's own walk: no seen set, and the 'parent' key is followed
\* like any other, so on nodes that carry a parent back-reference it recurses
\* until the call stack overflows
walkFpfn(ast) == [overflow |-> ast.parentLinks, nodes |-> walk(ast.root)]

featuresFromWalk(w) ==
    LET RawHas(t) == AnyNode(w.nodes, LAMBDA n : Has(n, "raw") /\ Includes(n.raw, t))
        hasStart == AnyNode(w.nodes, LAMBDA n : n.type = "Assertion" /\ n.kind = "start")
        hasEnd == AnyNode(w.nodes, LAMBDA n : n.type = "Assertion" /\ n.kind = "end")
    IN  IF w.overflow THEN [threw |-> TRUE]
        ELSE [threw |-> FALSE,
              usesDigits |-> RawHas(<<"\\", "d">>) \/ RawHas(<<"[", "0", "-", "9", "]">>),
              usesWordChars |-> RawHas(<<"\\", "w">>),
              allowsWhitespace |-> RawHas(<<"\\", "s">>) \/ RawHas(<<"[", " ", "\\", "t", "]">>),
              hasDotLike |-> RawHas(<<"\\", ".">>),
              hasHyphenLike |-> RawHas(<<"-">>),
              hasColonLike |-> RawHas(<<":">>),
              isAnchored |-> hasStart /\ hasEnd]

\* [threw] when the walk overflows, else [threw, the seven features]
extractFpfnFeatures(ast) == WithValue(walkFpfn(ast), featuresFromWalk)

\* the variants pushed by rules A to D of generateShouldStillMatchVariants
stillMatchRules(seed, F) ==
    (IF F.allowsWhitespace
     THEN <<<<" ">> \o seed, seed \o <<" ">>, replaceAll(seed, " ", <<" ", " ">>)>>
     ELSE <<>>)
    \o (IF \E k \in 1..Len(seed) : IsLetter(seed[k])
        THEN <<[k \in 1..Len(seed) |-> Upper(seed[k])],
               [k \in 1..Len(seed) |-> Lower(seed[k])], toggleCase(seed)>>
        ELSE <<>>)
    \o (IF F.hasHyphenLike THEN <<replaceAll(seed, "-", <<"_">>)>> ELSE <<>>)
    \o (IF F.hasDotLike THEN <<replaceAll(seed, ".", <<"-">>)>> ELSE <<>>)
    \o (IF F.hasColonLike THEN <<replaceAll(seed, ":", <<"-">>)>> ELSE <<>>)
    \o (IF Len(seed) >= 3
        THEN <<SubSeq(seed, 1, Len(seed) - 1), Append(seed, seed[Len(seed)])>>
        ELSE <<>>)

\* [threw, variants]
generateShouldStillMatchVariants(seed, ast) ==
    WithValue(extractFpfnFeatures(ast), LAMBDA F :
        IF F.threw THEN [threw |-> TRUE, variants |-> <<>>]
        ELSE [threw |-> FALSE, variants |-> uniqueLimited(stillMatchRules(seed, F), 8)])

\* the variants pushed by rules E to I of generateShouldNotMatchButMightVariants
mightMatchRules(seed, F) ==
    <<seed \o <<" ">>, seed \o <<"\t">>, seed \o <<"U+2705">>>>
    \o (IF F.usesDigits
        THEN <<replaceFirst(seed, IsDigit, <<"A">>), seed \o <<"A">>>>
        ELSE <<>>)
    \o (IF F.usesWordChars
        THEN <<seed \o <<"!">>, replaceFirst(seed, IsLetter, <<"!">>)>>
        ELSE <<>>)
    \o (IF F.hasDotLike THEN <<replaceAll(seed, ".", <<".", ".">>)>> ELSE <<>>)
    \o (IF F.hasHyphenLike THEN <<replaceAll(seed, "-", <<"-", "-">>)>> ELSE <<>>)
    \o (IF F.hasColonLike THEN <<replaceAll(seed, ":", <<":", ":">>)>> ELSE <<>>)
    \o (IF ~F.isAnchored
        THEN <<<<"x", "x", "x">> \o seed \o <<"y", "y", "y">>, <<"{">> \o seed \o <<"}">>>>
        ELSE <<>>)

\* [threw, variants]
generateShouldNotMatchButMightVariants(seed, ast) ==
    WithValue(extractFpfnFeatures(ast), LAMBDA F :
        IF F.threw THEN [threw |-> TRUE, variants |-> <<>>]
        ELSE [threw |-> FALSE, variants |-> uniqueLimited(mightMatchRules(seed, F), 10)])

\* push of sampleSeedsFromMatches
pushSeed(seeds, s) ==
    IF s = <<>> THEN seeds
    ELSE Append(seeds, IF Len(s) > 300 THEN SubSeq(s, 1, 300) ELSE s)

RECURSIVE seedsFromGroups(_, _, _, _)
seedsFromGroups(groups, k, seeds, maxCandidates) ==
    IF k > Len(groups) \/ Len(seeds) >= maxCandidates THEN seeds
    ELSE WithValue(IF Len(groups[k].value) >= 2 THEN pushSeed(seeds, groups[k].value)
                   ELSE seeds,
                   LAMBDA next : seedsFromGroups(groups, k + 1, next, maxCandidates))

RECURSIVE seedsFromMatches(_, _, _, _)
seedsFromMatches(matches, k, seeds, maxCandidates) ==
    IF k > Len(matches) \/ Len(seeds) >= maxCandidates THEN seeds
    ELSE WithValue(seedsFromGroups(matches[k].groups, 1,
                                   pushSeed(seeds, matches[k].matchText), maxCandidates),
                   LAMBDA next : seedsFromMatches(matches, k + 1, next, maxCandidates))

sampleSeedsFromMatches(sampleText, matches, maxCandidates) ==
    WithValue(Distinct(seedsFromMatches(matches, 1, <<>>, maxCandidates)),
              LAMBDA seeds : SubSeq(seeds, 1, Min2(Len(seeds), Min2(40, maxCandidates))))

\* safeCompile: the compiled expression is its body and flags
safeCompile(pattern, flagsStr) ==
    [ok |-> EngineCompiles(pattern, flagsStr), body |-> pattern, flags |-> flagsStr]

\* a body of literal characters matches str at offset pos
LiteralMatchAt(body, ignoreCase, str, pos) ==
    /\ pos + Len(body) <= Len(str)
    /\ \A j \in 1..Len(body) :
          \/ str[pos + j] = body[j]
          \/ ignoreCase /\ Upper(str[pos + j]) = Upper(body[j])

\* re.test(str) with re.lastIndex = lastIndex: [m, lastIndex]
regexTest(re, lastIndex, str) ==
    LET advancing == "g" \in Range(re.flags) \/ "y" \in Range(re.flags)
        from == IF advancing THEN lastIndex ELSE 0
        hits == {p \in from..Len(str) :
                    /\ LiteralMatchAt(re.body, "i" \in Range(re.flags), str, p)
                    /\ ("y" \in Range(re.flags) => p = from)}
    IN  IF hits = {} THEN
            [m |-> FALSE, lastIndex |-> IF advancing THEN 0 ELSE lastIndex]
        ELSE LET p == CHOOSE x \in hits : \A y \in hits : x <= y
             IN  [m |-> TRUE,
                  lastIndex |-> IF advancing THEN p + Len(re.body) ELSE lastIndex]

\* testMatch with the verdict of the test turned round
testMatchNegated(re, lastIndex, str) ==
    IF ~re.ok THEN [m |-> TRUE, lastIndex |-> lastIndex]
    ELSE [regexTest(re, lastIndex, str) EXCEPT !.m = ~@]

\* testMatch: a test that faults (no compiled expression) counts as no match
testMatch(re, lastIndex, str) ==
    IF ~re.ok THEN [m |-> FALSE, lastIndex |-> lastIndex]
    ELSE regexTest(re, lastIndex, str)

\* the off-by-one form of the work cap
workExhaustedLate(run, limits) == run.used > limits.maxTotalWork

\* work.used >= limits.maxTotalWork
workExhausted(run, limits) == run.used >= limits.maxTotalWork

\* the loop over the variants of one seed; run = [used, lastIndex, found,
\* threw], an entry is kept when the verdict equals keepWhen
RECURSIVE testVariants(_, _, _, _, _, _)
testVariants(re, variants, k, run, keepWhen, limits) ==
    IF k > Len(variants) \/ Len(run.found) >= FP_FN_LIMIT \/ workExhausted(run, limits)
    THEN run
    ELSE WithValue(testMatch(re, run.lastIndex, variants[k]), LAMBDA t :
         WithValue([used |-> run.used + 1, lastIndex |-> t.lastIndex,
                    found |-> IF t.m = keepWhen THEN Append(run.found, variants[k])
                              ELSE run.found,
                    threw |-> FALSE],
                   LAMBDA next : testVariants(re, variants, k + 1, next, keepWhen, limits)))

\* one seed of phase 2A (keepWhen = FALSE) or 2B (TRUE): [threw, variants]
variantsOf(seed, ast, keepWhen) ==
    IF keepWhen THEN generateShouldNotMatchButMightVariants(seed, ast)
    ELSE generateShouldStillMatchVariants(seed, ast)

\* the loop over the seeds of a phase
RECURSIVE testSeeds(_, _, _, _, _, _, _)
testSeeds(re, seeds, s, run, keepWhen, ast, limits) ==
    IF s > Len(seeds) \/ Len(run.found) >= FP_FN_LIMIT THEN run
    ELSE WithValue(variantsOf(seeds[s], ast, keepWhen), LAMBDA gen :
         IF gen.threw THEN [run EXCEPT !.threw = TRUE]
         ELSE WithValue(testVariants(re, gen.variants, 1, run, keepWhen, limits),
                        LAMBDA after :
                            IF workExhausted(after, limits) THEN after
                            ELSE testSeeds(re, seeds, s + 1, after, keepWhen, ast, limits)))

Estimate(outcome, positives, negatives, notes, used) ==
    [outcome |-> outcome, likelyFalsePositives |-> positives,
     likelyFalseNegatives |-> negatives, notes |-> notes, used |-> used]

limitsOf(guard) ==
    [maxCandidates |-> IF Has(guard, "maxCandidates") THEN guard.maxCandidates ELSE 250,
     maxLineLen |-> IF Has(guard, "maxLineLen") THEN guard.maxLineLen ELSE 500,
     maxTotalWork |-> IF Has(guard, "maxTotalWork") THEN guard.maxTotalWork ELSE 2000]

\* dedupe(arr).slice(0, FP_FN_LIMIT) with the reason of the list
limitedEntries(found, reason) ==
    WithValue(Distinct(found), LAMBDA texts :
        [k \in 1..Min2(Len(texts), FP_FN_LIMIT) |-> [text |-> texts[k], reason |-> reason]])

\* the return at the end of estimateFalsePosNeg
fullEstimate(neg, pos, limits) ==
    Estimate("returned",
        limitedEntries(pos.found,
            "A suspicious-looking variation still matched (may be too broad)."),
        limitedEntries(neg.found,
            "Small variation of a known match did not match (may be too strict)."),
        <<"These are heuristic examples based on your sample text. Treat them as likely cases, not proof.">>
        \o (IF workExhausted(pos, limits)
            THEN <<"Estimation was capped to avoid slowdowns.">> ELSE <<>>),
        pos.used)

\* estimateFalsePosNeg from step 2 on
estimateFromMatches(inp, re, limits) ==
    WithValue(sampleSeedsFromMatches(inp.sampleText, inp.matches, limits.maxCandidates),
              LAMBDA negSeeds :
    WithValue(testSeeds(re, negSeeds, 1,
                        [used |-> 0, lastIndex |-> 0, found |-> <<>>, threw |-> FALSE],
                        FALSE, inp.ast, limits),
              LAMBDA neg :
        IF neg.threw THEN Estimate("threw", <<>>, <<>>, <<>>, neg.used)
        ELSE WithValue(testSeeds(re, negSeeds, 1, [neg EXCEPT !.found = <<>>],
                                 TRUE, inp.ast, limits),
                       LAMBDA pos :
                           IF pos.threw THEN Estimate("threw", <<>>, <<>>, <<>>, pos.used)
                           ELSE fullEstimate(neg, pos, limits))))

\* the return for an empty match list
noMatchesEstimate ==
    Estimate("returned", <<>>, <<>>,
        <<"No matches were found in the sample text, so the tool cannot infer likely false positives/negatives.",
          "Tip: paste a sample that includes at least one expected match.">>, 0)

\* estimateFalsePosNeg without the early return for a pattern that does not
\* compile
estimateFalsePosNegUnchecked(inp) ==
    WithValue(limitsOf(inp.guard), LAMBDA limits :
    WithValue(safeCompile(inp.pattern, stripFirstG(inp.flagsStr)), LAMBDA re :
        IF Len(inp.matches) = 0 THEN noMatchesEstimate
        ELSE estimateFromMatches(inp, re, limits)))

estimateFalsePosNeg(inp) ==
    WithValue(limitsOf(inp.guard), LAMBDA limits :
    WithValue(safeCompile(inp.pattern, stripFirstG(inp.flagsStr)), LAMBDA re :
        IF ~re.ok THEN
            Estimate("returned", <<>>, <<>>,
                <<"Cannot estimate false positives/negatives because the regex did not compile.">>, 0)
        ELSE IF Len(inp.matches) = 0 THEN noMatchesEstimate
        ELSE estimateFromMatches(inp, re, limits)))

(***************************************************************************)
(* Inputs of the tree-consuming components: patterns put together from a   *)
(* menu of fragments, optionally anchored at either end.                   *)
(***************************************************************************)
MaxFrags == 3

Chars(text) == [k \in 1..Len(text) |-> Character(<<text[k]>>)]

Plus(element) == Quantifier(element, 1, Infinity, TRUE, FALSE)
Exactly(element, n) == Quantifier(element, n, n, TRUE, TRUE)

NotSpaceOrAt ==
    CharacterClass(TRUE, <<CharacterSet("space", <<"\\", "s">>), Character(<<"@">>)>>)
HexClass ==
    CharacterClass(FALSE, <<CharacterClassRange("0", "9"), CharacterClassRange("a", "f"),
                            CharacterClassRange("A", "F")>>)
EscapedDot == Character(<<"\\", ".">>)
EscapedSlash == Character(<<"\\", "/">>)
UuidText ==
    <<"d", "e", "a", "d", "b", "e", "e", "f", "-", "d", "e", "a", "d", "-",
      "b", "e", "e", "f", "-", "d", "e", "a", "d", "-",
      "b", "e", "e", "f", "d", "e", "a", "d", "b", "e", "e", "f">>

\*  1  [^\s@]+@[^\s@]+      2  \.[^\s@]+      3  [0-9a-fA-F]{8}
\*  4  [0-9a-fA-F]{12}      5  a literal UUID      6  \d{3}-
\*  7  https?:\/\/          8  (?:a|b)        9  \b
Fragments == <<
    <<Plus(NotSpaceOrAt), Character(<<"@">>), Plus(NotSpaceOrAt)>>,
    <<EscapedDot, Plus(NotSpaceOrAt)>>,
    <<Exactly(HexClass, 8)>>,
    <<Exactly(HexClass, 12)>>,
    Chars(UuidText),
    <<Exactly(CharacterSet("digit", <<"\\", "d">>), 3), Character(<<"-">>)>>,
    Chars(<<"h", "t", "t", "p">>)
        \o <<Quantifier(Character(<<"s">>), 0, 1, TRUE, FALSE), Character(<<":">>),
             EscapedSlash, EscapedSlash>>,
    <<Group(<<Alternative(Chars(<<"a">>)), Alternative(Chars(<<"b">>))>>)>>,
    <<Assertion("word", <<"\\", "b">>)>> >>

RECURSIVE Pick(_, _)
Pick(chosen, k) ==
    IF k > Len(Fragments) THEN <<>>
    ELSE (IF k \in chosen THEN Fragments[k] ELSE <<>>) \o Pick(chosen, k + 1)

\* the tree of ^?(fragments)$? as the parser returns it (ast.pattern)
TreeOf(chosen, start, end) ==
    Place(Pattern(<<Alternative(
        (IF start THEN <<Assertion("start", <<"^">>)>> ELSE <<>>)
        \o Pick(chosen, 1)
        \o (IF end THEN <<Assertion("end", <<"$">>)>> ELSE <<>>))>>), 0)

FragmentTrees ==
    {TreeOf(chosen, start, end) :
        chosen \in {c \in SUBSET (1..Len(Fragments)) : Cardinality(c) <= MaxFrags},
        start \in BOOLEAN, end \in BOOLEAN}

\* the flags record; inferIntent reads flags.i only
Flags(g, i, m, s, u, y) == [g |-> g, i |-> i, m |-> m, s |-> s, u |-> u, y |-> y]
NoFlags == Flags(FALSE, FALSE, FALSE, FALSE, FALSE, FALSE)

NoIntent == [label |-> "", confidence |-> 0, rationale |-> <<>>]

MaxRiskFrags == 1

Star(element) == Quantifier(element, 0, Infinity, TRUE, FALSE)
Optional(element) == Quantifier(element, 0, 1, TRUE, FALSE)
LetterA == Character(<<"a">>)

\*  1  (a+)+     2  .* (the dot set of kind "dot")    3  . (kind "any", as
\*  regexpp names it)      4  a?      5  (?:^a)       6  (?:a|)
\*  7  [\s\S]    8  (?=a)   9  \p{L}
RiskFragments == <<
    <<Plus(CapturingGroup(<<Alternative(<<Plus(LetterA)>>)>>))>>,
    <<Star(CharacterSet("dot", <<".">>))>>,
    <<CharacterSet("any", <<".">>)>>,
    <<Optional(LetterA)>>,
    <<Group(<<Alternative(<<Assertion("start", <<"^">>), LetterA>>)>>)>>,
    <<Group(<<Alternative(<<LetterA>>), Alternative(<<>>)>>)>>,
    <<CharacterClass(FALSE, <<CharacterSet("space", <<"\\", "s">>),
                              CharacterSet("space", <<"\\", "S">>)>>)>>,
    <<Lookahead(<<Alternative(<<LetterA>>)>>)>>,
    <<CharacterSet("property", <<"\\", "p", "{", "L", "}">>)>> >>

RECURSIVE PickRisk(_, _)
PickRisk(chosen, k) ==
    IF k > Len(RiskFragments) THEN <<>>
    ELSE (IF k \in chosen THEN RiskFragments[k] ELSE <<>>) \o PickRisk(chosen, k + 1)

RiskTreeOf(chosen, start, end) ==
    Place(Pattern(<<Alternative(
        (IF start THEN <<Assertion("start", <<"^">>)>> ELSE <<>>)
        \o PickRisk(chosen, 1)
        \o (IF end THEN <<Assertion("end", <<"$">>)>> ELSE <<>>))>>), 0)

RiskTrees ==
    {RiskTreeOf(chosen, start, end) :
        chosen \in {c \in SUBSET (1..Len(RiskFragments)) : Cardinality(c) <= MaxRiskFrags},
        start \in BOOLEAN, end \in BOOLEAN}

\* detectRisks never reads flags.i
RiskFlags ==
    {Flags(g, FALSE, m, s, u, y) :
        g \in BOOLEAN, m \in BOOLEAN, s \in BOOLEAN, u \in BOOLEAN, y \in BOOLEAN}

NoSample == [given |-> FALSE, text |-> <<>>]
Sample(text) == [given |-> TRUE, text |-> text]
RiskSamples == {NoSample, Sample(<<"a", "a">>), Sample(<<"a", "\n", "a">>)}

NoCtx == [given |-> FALSE, probe |-> "fast"]
RiskCtxs == {NoCtx, [given |-> TRUE, probe |-> "slow"]}

NoWarnings == [threw |-> FALSE, warnings |-> <<>>]

MaxMatches == 2
MaxWork == 6

\* a   and   ^\d-\s\.:\w$
EstPlain == Place(Pattern(<<Alternative(<<LetterA>>)>>), 0)
EstRich ==
    Place(Pattern(<<Alternative(<<
        Assertion("start", <<"^">>), CharacterSet("digit", <<"\\", "d">>),
        Character(<<"-">>), CharacterSet("space", <<"\\", "s">>), EscapedDot,
        Character(<<":">>), CharacterSet("word", <<"\\", "w">>),
        Assertion("end", <<"$">>)>>)>>), 0)

\* a tree as the parser returns it has parent back-references; a tree built
\* by hand after the data model has none
EstAsts ==
    {[root |-> EstPlain, parentLinks |-> FALSE],
     [root |-> EstRich, parentLinks |-> FALSE],
     [root |-> EstPlain, parentLinks |-> TRUE]}

\* the pattern texts: a, the empty pattern, and ( which does not compile
EstPatterns == {<<"a">>, <<>>, <<"(">>}
EstFlags == {<<>>, <<"g">>, <<"g", "i">>, <<"y">>}

MatchRecord(matchText, groups) ==
    [matchText |-> matchText, groups |-> groups, line |-> [number |-> 1]]

MatchRecords ==
    {MatchRecord(<<"a", "b", "1">>, <<>>),
     MatchRecord(<<"a", "-", "1">>, <<[value |-> <<"a", "-">>]>>),
     MatchRecord(<<>>, <<>>),
     MatchRecord(<<"1", ".", "2">>, <<[value |-> <<"1">>]>>)}

\* guard: undefined, or an object with some of the limits
NoGuard == [undefined |-> TRUE]
Guards ==
    {NoGuard}
    \cup {[maxTotalWork |-> w] : w \in 0..MaxWork}
    \cup {[maxCandidates |-> c] : c \in 0..1}

EstInputs ==
    {[ast |-> a, pattern |-> p, flagsStr |-> f, sampleText |-> <<"a", "b", "1">>,
      matches |-> m, guard |-> g] :
        a \in EstAsts, p \in EstPatterns, f \in EstFlags,
        m \in SeqsUpTo(MatchRecords, MaxMatches), g \in Guards}

NoEstimate == Estimate("none", <<>>, <<>>, <<>>, 0)

(***************************************************************************)
(* Explainer (explain.js).  A string is kept as the sequence of its        *)
(* non-empty pieces, so the empty string is <<>>; a list of strings is a   *)
(* sequence of such sequences.                                             *)
(***************************************************************************)
\* Array.prototype.join
RECURSIVE join(_, _)
join(strs, sep) ==
    IF strs = <<>> THEN <<>>
    ELSE IF Len(strs) = 1 THEN strs[1]
    ELSE strs[1] \o <<sep>> \o join(Tail(strs), sep)

\* the code point regexpp stores in Character.value: the character itself, or
\* the escaped character of an identity escape such as \. and \/
CharValue(n) == n.raw[Len(n.raw)]

formatChar(val) ==
    CASE val = "\n" -> <<"\\n">>
      [] val = "\t" -> <<"\\t">>
      [] OTHER -> <<val>>

\* summarizeGroup: the shallow summary of a lookaround
summarizeGroup(node) ==
    IF ~Has(node, "alternatives") \/ node.alternatives = <<>> THEN "nothing"
    ELSE LET alt == node.alternatives[1]
         IN  IF Has(alt, "elements") /\ Len(alt.elements) > 1 THEN "sequence"
             ELSE IF Has(alt, "elements") /\ Len(alt.elements) = 1
                     /\ alt.elements[1].type = "Character" THEN "literal"
             ELSE IF Has(alt, "elements") /\ Len(alt.elements) = 1
                     /\ alt.elements[1].type = "CharacterSet" THEN "character set"
             ELSE IF Has(alt, "elements") /\ Len(alt.elements) = 1
                     /\ alt.elements[1].type = "Group" THEN "group"
             ELSE "pattern"

describeAssertion(node) ==
    CASE node.kind = "start" -> <<"Start of string/line anchor">>
      [] node.kind = "end" -> <<"End of string/line anchor">>
      [] node.kind = "word" -> <<"Word boundary">>
      [] node.kind = "non-word" -> <<"Non-word boundary">>
      [] node.kind = "lookahead" ->
            <<"Positive lookahead (needs ", summarizeGroup(node), " to follow)">>
      [] node.kind = "lookbehind" ->
            <<"Positive lookbehind (needs ", summarizeGroup(node), " to precede)">>
      [] node.kind = "negative-lookahead" ->
            <<"Negative lookahead (ensures ", summarizeGroup(node), " does NOT follow)">>
      [] node.kind = "negative-lookbehind" ->
            <<"Negative lookbehind (ensures ", summarizeGroup(node), " does NOT precede)">>
      [] OTHER -> <<"Assertion (", node.kind, ")">>

describeCharacterSet(node) ==
    IF Has(node, "negate") /\ node.negate THEN
        CASE node.kind = "digit" -> <<"Any non-digit">>
          [] node.kind = "word" -> <<"Any non-word character">>
          [] node.kind = "space" -> <<"Any non-whitespace">>
          [] node.kind = "property" -> <<"Any character NOT in Unicode property ", "key">>
          [] OTHER -> <<"Inverted character set">>
    ELSE
        CASE node.kind = "digit" -> <<"Any digit (0-9)">>
          [] node.kind = "word" -> <<"Any word character (a-z, A-Z, 0-9, _)">>
          [] node.kind = "space" -> <<"Any whitespace (space, tab, newline)">>
          [] node.kind \in {"any", "dot"} ->
                <<"Any character (except newline unless 's' flag)">>
          [] node.kind = "property" -> <<"Character with Unicode property ", "key">>
          [] OTHER -> <<"Character set">>

\* the part pushed for one element of a bracket expression, <<>> when the
\* element is of no listed type and nothing is pushed
classPart(el) ==
    CASE el.type = "Character" -> <<formatChar(CharValue(el))>>
      [] el.type = "CharacterClassRange" ->
            <<formatChar(CharValue(el.min)) \o <<"-">> \o formatChar(CharValue(el.max))>>
      [] el.type = "CharacterSet" -> <<describeCharacterSet(el)>>
      [] OTHER -> <<>>

describeCharacterClass(node) ==
    LET parts == Flatten([k \in 1..Len(node.elements) |-> classPart(node.elements[k])])
    IN  (IF node.negate THEN <<"Any character EXCEPT: [">>
         ELSE <<"One of the characters: [">>)
        \o join(parts, ", ") \o <<"]">>

describeBackreference(node) ==
    <<"Backreference: matches the same text as Capturing Group ", "#", "ref">>

\* the range words of describeQuantifier ("U+2014" there stands for the dash)
quantifierRange(min, max) ==
    IF min = 0 /\ max = 1 THEN <<"optionally (0 or 1 time)">>
    ELSE IF min = 0 /\ max = Infinity THEN <<"zero or more times">>
    ELSE IF min = 1 /\ max = Infinity THEN <<"one or more times">>
    ELSE IF min = max THEN
        <<"exactly ">> \o Digits(min) \o (IF min = 1 THEN <<" time">> ELSE <<" times">>)
    ELSE <<"between ">> \o Digits(min) \o <<" and ">>
         \o (IF max = Infinity THEN <<"unlimited">> ELSE Digits(max)) \o <<" times">>

RECURSIVE describeNode(_)
RECURSIVE describeElements(_)
RECURSIVE analyzeAlternatives(_)
RECURSIVE describeGroup(_)
RECURSIVE describeQuantifier(_)

\* the line of analyzeAlternatives for the alternative number idx
alternativeLine(desc, idx) ==
    <<"  ">> \o Digits(idx) \o <<". ">>
    \o (IF join(desc, ", ") = <<>> THEN <<"Empty string">> ELSE join(desc, ", "))

analyzeAlternatives(alts) ==
    IF Len(alts) = 0 THEN << <<"Empty pattern">> >>
    ELSE IF Len(alts) = 1 THEN describeElements(alts[1].elements)
    ELSE << <<"Matches one of ">> \o Digits(Len(alts)) \o <<" alternatives:">> >>
         \o [k \in 1..Len(alts) |-> alternativeLine(describeElements(alts[k].elements), k)]

\* the descriptions of the elements, an empty description left out
describeElements(elements) ==
    IF elements = <<>> THEN <<>>
    ELSE SelectSeq([k \in 1..Len(elements) |-> describeNode(elements[k])],
                   LAMBDA d : d # <<>>)

describeGroup(node) ==
    LET content == analyzeAlternatives(node.alternatives)
        contentStr ==
            IF Len(content) > 3 THEN join(SubSeq(content, 1, 3), ", ") \o <<", ...">>
            ELSE IF Len(content) > 0 THEN join(content, ", ")
            ELSE <<"empty">>
    IN  IF node.type = "CapturingGroup"
        THEN <<"Capturing Group ", "#?", ": matches ">> \o contentStr
        ELSE <<"Non-capturing group: matches ">> \o contentStr

describeQuantifier(node) ==
    describeNode(node.element) \o <<" ", "U+2014", " matches ">>
    \o quantifierRange(node.min, node.max)
    \o (IF node.greedy = FALSE THEN <<" (lazy)">> ELSE <<>>)

describeNode(node) ==
    CASE node.type = "Assertion" -> describeAssertion(node)
      [] node.type = "Quantifier" -> describeQuantifier(node)
      [] node.type = "Character" -> <<"Literal \"">> \o formatChar(CharValue(node)) \o <<"\"">>
      [] node.type = "CharacterSet" -> describeCharacterSet(node)
      [] node.type = "CharacterClass" -> describeCharacterClass(node)
      [] node.type \in {"Group", "CapturingGroup"} -> describeGroup(node)
      [] node.type = "Backreference" -> describeBackreference(node)
      [] OTHER -> <<"Unknown component (", node.type, ")">>

\* flags is the flag string
analyzeConstraints(ast, flags) ==
    LET firstAlt == ast.alternatives[1]
        elements == firstAlt.elements
        isStart == elements[1].type = "Assertion" /\ elements[1].kind = "start"
        isEnd == elements[Len(elements)].type = "Assertion"
                 /\ elements[Len(elements)].kind = "end"
    IN  (IF "g" \in Range(flags)
         THEN << <<"Global: matches all occurrences, not just the first.">> >> ELSE <<>>)
        \o (IF "i" \in Range(flags)
            THEN << <<"Case-insensitive: ignores case differences.">> >> ELSE <<>>)
        \o (IF "m" \in Range(flags)
            THEN << <<"Multi-line: ^ and $ match start/end of lines.">> >> ELSE <<>>)
        \o (IF "s" \in Range(flags) THEN << <<"Dot-all: . matches newlines.">> >> ELSE <<>>)
        \o (IF "u" \in Range(flags)
            THEN << <<"Unicode: treats pattern as a sequence of code points.">> >>
            ELSE <<>>)
        \o (IF "y" \in Range(flags)
            THEN << <<"Sticky: matches only from the last index.">> >> ELSE <<>>)
        \o (IF ast.type = "Pattern" /\ Len(ast.alternatives) > 0
               /\ Has(firstAlt, "elements") /\ Len(elements) > 0
            THEN (IF isStart /\ isEnd
                  THEN << <<"Anchored: needs a full string (or line) match.">> >>
                  ELSE IF isStart THEN << <<"Start-anchored: must match from the start.">> >>
                  ELSE IF isEnd THEN << <<"End-anchored: must match at the end.">> >>
                  ELSE <<>>)
            ELSE <<>>)

generateSummary(alts, constraints, flags) ==
    (IF Len(alts) > 1
     THEN << <<"Matches any one of ">> \o Digits(Len(alts)) \o <<" alternative patterns.">> >>
     ELSE << <<"Matches a specific sequence of characters.">> >>)
    \o (IF "i" \in Range(flags) THEN << <<"The match is case-insensitive.">> >> ELSE <<>>)
    \o (IF "g" \in Range(flags)
        THEN << <<"Finds all matches in the text (Global).">> >> ELSE <<>>)

NoAst == [type |-> "null"]
NoExplanation == [summary |-> <<>>, components |-> <<>>, constraints |-> <<>>]

explainPattern(ast, flags) ==
    IF ast = NoAst THEN NoExplanation
    ELSE LET rootAlternatives == IF ast.type = "Pattern" THEN ast.alternatives ELSE <<ast>>
             constraints == analyzeConstraints(ast, flags)
         IN  [summary |-> generateSummary(rootAlternatives, constraints, flags),
              components |-> analyzeAlternatives(rootAlternatives),
              constraints |-> constraints]

\* the trees explained: those of the risk detector, a|b at the top level, a
\* Pattern without alternatives, and no tree
ExplainTrees ==
    RiskTrees
    \cup {Place(Pattern(<<Alternative(<<LetterA>>), Alternative(Chars(<<"b">>))>>), 0),
          Place(Pattern(<<>>), 0), NoAst}

\* the flag strings in the canonical order gimsuy
FlagStrings ==
    {SelectSeq(<<"g", "i", "m", "s", "u", "y">>, LAMBDA c : c \in on) :
        on \in SUBSET {"g", "i", "m", "s", "u", "y"}}

(***************************************************************************)
(* The analysis pipeline of the page (ui.js).  runAnalysis is followed     *)
(* call by call; the handlers of the page run to completion, so an input   *)
(* event, a click or the debounce timer is served only between two runs.   *)
(* What a downstream component returns is computed in that component's own *)
(* specification; here only what steers the run is kept: how many match    *)
(* records the preview produced and whether a call threw.                  *)
(***************************************************************************)
MaxRunBodyLen == 1

\* the values of the pattern field, the checkboxes and the sample field
DomPatterns == SeqsUpTo(BodyAlphabet, MaxRunBodyLen)
DomFlags == {Flags(g, FALSE, FALSE, FALSE, u, FALSE) : g \in BOOLEAN, u \in BOOLEAN}
DomSamples == {<<>>, <<"a">>}

\* ["g","i","m","s","u","y"].filter(k => flagsObj[k]).join("")
flagsStrOf(flagsObj) ==
    SelectSeq(<<"g", "i", "m", "s", "u", "y">>, LAMBDA k : flagsObj[k])

\* normalizePatternInput: String(patternRaw ?? "")
normalizePatternInput(patternRaw) == patternRaw

\* the locals of a run that has not parsed yet
NoRun ==
    [patternBody |-> <<>>, flagsStr |-> <<>>, sampleText |-> <<>>,
     parsed |-> FALSE, parseOk |-> FALSE, matchCount |-> 0, threw |-> FALSE]

\* runAnalysis up to the parse: the locals read from the page
runLocals(d) ==
    [NoRun EXCEPT !.patternBody = normalizePatternInput(d.pattern),
                  !.flagsStr = flagsStrOf(d.flags),
                  !.sampleText = d.sample]

\* where runAnalysis goes on after the parse without the early return
afterParseUnguarded(parseResult) == "intent"

\* if (!parseResult.ok) { renderError(parseResult.error); return; }
afterParse(parseResult) == IF ~parseResult.ok THEN "idle" ELSE "intent"

\* renderError / renderStatus("Compiled OK", "success")
statusAfterParse(parseResult) == IF ~parseResult.ok THEN "Error" ELSE "Compiled OK"

\* renderAdvancedAnalysis: the estimator runs when there is a sample and a match
estimatorRuns(run) == Len(run.sampleText) > 0 /\ run.matchCount > 0

(***************************************************************************)
(* The tree walks as they run on objects (risks.js, intentmap.js,          *)
(* fpfn-rules.js).  A heap maps an object identity (1, 2, ...; 0 is null)  *)
(* to its object-valued fields in the key order of the object; a field     *)
(* holds one reference or an array of references.  Fields with primitive   *)
(* values are left out: every walk passes over them.  The nodes of a heap  *)
(* are numbered in depth-first pre-order of their child fields.            *)
(***************************************************************************)
\* the depth of recursion at which the engine throws RangeError
MaxStack == 8

Ref(key, to) == [key |-> key, refs |-> <<to>>]
Refs(key, to) == [key |-> key, refs |-> to]

\* the tree of ab as the parser returns it: every node has its parent key
\* right after type
ParsedAB ==
    [root |-> 1,
     heap |-> << <<Ref("parent", 0), Refs("alternatives", <<2>>)>>,
                 <<Ref("parent", 1), Refs("elements", <<3, 4>>)>>,
                 <<Ref("parent", 2)>>,
                 <<Ref("parent", 2)>> >>]

\* the tree of (a)\1 as the parser returns it: the group lists the
\* backreference in references, the backreference points to the group in
\* resolved
ParsedGroupRef ==
    [root |-> 1,
     heap |-> << <<Ref("parent", 0), Refs("alternatives", <<2>>)>>,
                 <<Ref("parent", 1), Refs("elements", <<3, 6>>)>>,
                 <<Ref("parent", 2), Refs("alternatives", <<4>>),
                   Refs("references", <<6>>)>>,
                 <<Ref("parent", 3), Refs("elements", <<5>>)>>,
                 <<Ref("parent", 4)>>,
                 <<Ref("parent", 2), Ref("resolved", 3)>> >>]

\* the same objects without the parent keys
WithoutParent(g) ==
    [g EXCEPT !.heap = [n \in 1..Len(g.heap) |->
                            SelectSeq(g.heap[n], LAMBDA f : f.key # "parent")]]

WalkGraphs ==
    {ParsedAB, ParsedGroupRef, WithoutParent(ParsedAB), WithoutParent(ParsedGroupRef)}

\* the three walks: those of risks.js and intentmap.js keep a WeakSet of the
\* objects seen and pass over the key parent, that of fpfn-rules.js does
\* neither
Walkers == {"risks", "intent", "fpfn"}
keepsSeen(walker) == walker \in {"risks", "intent"}
skipsParent(walker) == walker \in {"risks", "intent"}

\* a frame of the recursion: the node, the field the loop over the keys is
\* at, the element the forEach of that field is at
Frame(node) == [node |-> node, key |-> 1, elem |-> 1]

\* the walk has visited the nodes 1..n in this order
VisitedInPreOrder(visited, n) == visited = [k \in 1..n |-> k]

(***************************************************************************)
(* Match preview (execute.js).  The compiled expression is that of the     *)
(* estimator: a body of literal characters with its flags.                 *)
(***************************************************************************)
MaxTextLen == 3
MaxGuardMatches == 2

\* re.exec(str) with re.lastIndex = lastIndex: [index, end, lastIndex], index
\* -1 standing for null
regexExec(re, lastIndex, str) ==
    LET advancing == "g" \in Range(re.flags) \/ "y" \in Range(re.flags)
        from == IF advancing THEN lastIndex ELSE 0
        hits == {p \in from..Len(str) :
                    /\ LiteralMatchAt(re.body, "i" \in Range(re.flags), str, p)
                    /\ ("y" \in Range(re.flags) => p = from)}
    IN  IF hits = {} THEN
            [index |-> -1, end |-> -1, lastIndex |-> IF advancing THEN 0 ELSE lastIndex]
        ELSE LET p == CHOOSE x \in hits : \A y \in hits : x <= y
             IN  [index |-> p, end |-> p + Len(re.body),
                  lastIndex |-> IF advancing THEN p + Len(re.body) ELSE lastIndex]

formatMatch(m, text) ==
    [matchIndex |-> 0, inputSpan |-> [start |-> m.index, end |-> m.end]]
    @@ MatchRecord(SubSeq(text, m.index + 1, m.end), <<>>)

\* re.lastIndex left where exec put it
nextLastIndexKept(match) == match.lastIndex

\* if (match.index === re.lastIndex) re.lastIndex++
nextLastIndex(match) ==
    IF match.index = match.lastIndex THEN match.lastIndex + 1 ELSE match.lastIndex

\* the while loop of the global branch: safety is the counter before the
\* test 'safety++ > guard.maxMatches'
RECURSIVE execLoop(_, _, _, _, _, _)
execLoop(re, text, lastIndex, safety, results, guard) ==
    WithValue(regexExec(re, lastIndex, text), LAMBDA match :
        IF match.index = -1 THEN results
        ELSE IF safety > guard.maxMatches THEN results
        ELSE WithValue(Append(results, formatMatch(match, text)), LAMBDA pushed :
             WithValue(nextLastIndex(match),
                       LAMBDA next : execLoop(re, text, next, safety + 1, pushed, guard))))

\* executeRegex: the returned matches
executeRegex(pattern, flags, text, guard) ==
    IF text = <<>> THEN <<>>
    ELSE WithValue(safeCompile(pattern, flags), LAMBDA re :
        IF ~re.ok THEN <<>>
        ELSE IF "g" \in Range(flags) THEN execLoop(re, text, 0, 0, <<>>, guard)
        ELSE WithValue(regexExec(re, 0, text), LAMBDA match :
                 IF match.index # -1 THEN <<formatMatch(match, text)>> ELSE <<>>))

\* DEFAULT_GUARD of execute.js
DEFAULT_GUARD == [maxMatches |-> 500]

\* a, aa, the empty pattern, and ( which does not compile
ExecPatterns == {<<"a">>, <<"a", "a">>, <<>>, <<"(">>}
ExecFlags == {<<>>, <<"g">>, <<"g", "i">>, <<"g", "y">>, <<"y">>}
ExecTexts == SeqsUpTo({"a", "A"}, MaxTextLen)
ExecGuards == {[maxMatches |-> n] : n \in 1..MaxGuardMatches} \cup {DEFAULT_GUARD}

NoMatches == [matches |-> <<>>]

(***************************************************************************)
(* The four consumers called on the same objects.  An object a call was    *)
(* given is kept as the call leaves it, so a write to an argument shows in  *)
(* the state.                                                              *)
(***************************************************************************)
Components == {"explainPattern", "inferIntent", "detectRisks", "estimateFalsePosNeg"}

MaxCalls == 4

\* inferIntent(ast, flags)
inferIntent(ast, flags) ==
    pickIntent(sortByScore(clampScores(
        scoreCandidates(extractFeatures(ast, flags), flags))))

\* seen.add(node) written as a field of the node
seenAddOnNode(node) ==
    [k \in DOMAIN node \cup {"seen"} |-> IF k = "seen" THEN TRUE ELSE node[k]]

\* seen.add(node): the walks of inferIntent and detectRisks keep the nodes
\* they met in a WeakSet of their own; the node is not written
seenAdd(node) == node

\* what ui.js hands to the consumers: ast, flagsObj, sampleText and
\* matchRecords; flagsStr and patternBody are strings, copied by value
SessionObjects ==
    {[ast |-> t, parentLinks |-> links, flags |-> f,
      sampleText |-> <<"a", "b", "1">>, matches |-> m, pattern |-> <<"a">>] :
        t \in {EstPlain, EstRich, RiskTreeOf({1}, TRUE, FALSE),
               RiskTreeOf({2}, FALSE, FALSE)},
        links \in BOOLEAN,
        f \in {NoFlags, Flags(TRUE, TRUE, FALSE, FALSE, FALSE, FALSE)},
        m \in {<<>>, <<MatchRecord(<<"a", "-", "1">>, <<[value |-> <<"a", "-">>]>>)>>}}

\* the value a consumer returns for the objects o
resultOf(c, o) ==
    CASE c = "explainPattern" -> explainPattern(o.ast, flagsStrOf(o.flags))
      [] c = "inferIntent" -> inferIntent(o.ast, o.flags)
      [] c = "detectRisks" ->
            detectRisks(o.ast, o.flags, Sample(o.sampleText),
                        [given |-> TRUE, probe |-> "fast"])
      [] c = "estimateFalsePosNeg" ->
            estimateFalsePosNeg(
                [ast |-> [root |-> o.ast, parentLinks |-> o.parentLinks],
                 pattern |-> o.pattern, flagsStr |-> flagsStrOf(o.flags),
                 sampleText |-> o.sampleText, matches |-> o.matches,
                 guard |-> NoGuard])

\* the objects as the call leaves them: the only store of a consumer that
\* names a node is seen.add(node), first of all on the root; every other
\* store goes to an array or an object the consumer built itself
objectsAfter(c, o) ==
    IF c \in {"inferIntent", "detectRisks"}
    THEN [o EXCEPT !.ast = seenAdd(o.ast)]
    ELSE o

NotCalled == [called |-> FALSE]
Returned(value) == [called |-> TRUE, value |-> value]

(***************************************************************************)
(* The second tree shape the detectors of risks.js read: an element that   *)
(* carries its quantifier as a record in the field 'quantifier' (min, max, *)
(* greedy; max is left out, null, when unbounded), and a quantified         *)
(* element whose target is in the field 'element'.  The walk also calls fn  *)
(* on the quantifier record, which no detector reacts to: it has no type,   *)
(* no quantifier, no element and no raw text; it is left out of the walk.   *)
(***************************************************************************)
QuantifierRecord(min, max, greedy) ==
    IF max = Infinity THEN [min |-> min, greedy |-> greedy]
    ELSE [min |-> min, max |-> max, greedy |-> greedy]

\* node.quantifier on the element itself
OwnQuantifier(node, min, max, greedy) ==
    [quantifier |-> QuantifierRecord(min, max, greedy)]
    @@ [node EXCEPT !.raw = @ \o QuantifierText(min, max, greedy, TRUE)]

\* node.quantifier and node.element on one node
QuantifiedElement(element, min, max, greedy) ==
    [type |-> "Group", element |-> element,
     quantifier |-> QuantifierRecord(min, max, greedy),
     raw |-> <<"(", "?", ":">> \o element.raw \o <<")">>
             \o QuantifierText(min, max, greedy, TRUE)]

ShapeTreeOf(elements) == Place(Pattern(<<Alternative(elements)>>), 0)

\*  (?:.{2,}){2,}   (?:.{2,}){2,3}   (?:.{2,}?){2,}   (?:a|.{2,3}){2,}
\*  .{2,}   .{2,}?   .{2}   (?:a{2,})   all with and without a leading ^
ShapeElements ==
    LET dot == CharacterSet("dot", <<".">>)
    IN  {<<QuantifiedElement(OwnQuantifier(dot, 2, Infinity, TRUE), 2, Infinity, TRUE)>>,
         <<QuantifiedElement(OwnQuantifier(dot, 2, Infinity, TRUE), 2, 3, TRUE)>>,
         <<QuantifiedElement(OwnQuantifier(dot, 2, Infinity, FALSE), 2, Infinity, TRUE)>>,
         <<QuantifiedElement(
               Group(<<Alternative(<<LetterA>>),
                       Alternative(<<OwnQuantifier(dot, 2, 3, TRUE)>>)>>),
               2, Infinity, TRUE)>>,
         <<OwnQuantifier(dot, 2, Infinity, TRUE)>>,
         <<OwnQuantifier(dot, 2, Infinity, FALSE)>>,
         <<OwnQuantifier(dot, 2, 2, TRUE)>>,
         <<Group(<<Alternative(<<OwnQuantifier(LetterA, 2, Infinity, TRUE)>>)>>)>>}

ShapeTrees ==
    {ShapeTreeOf(e) : e \in ShapeElements}
    \cup {ShapeTreeOf(<<Assertion("start", <<"^">>)>> \o e) : e \in ShapeElements}

\* quantifiers in counting form, as the parser returns them:
\*  a{0,}   a{1,}   a{0,1}   a{2,}   a{0,}a{1,}   and, in the second shape, a{0,}
CountingTrees ==
    {ShapeTreeOf(<<Quantifier(LetterA, 0, Infinity, TRUE, TRUE)>>),
     ShapeTreeOf(<<Quantifier(LetterA, 1, Infinity, TRUE, TRUE)>>),
     ShapeTreeOf(<<Quantifier(LetterA, 0, 1, TRUE, TRUE)>>),
     ShapeTreeOf(<<Quantifier(LetterA, 2, Infinity, TRUE, TRUE)>>),
     ShapeTreeOf(<<Quantifier(LetterA, 0, Infinity, TRUE, TRUE),
                   Quantifier(LetterA, 1, Infinity, TRUE, TRUE)>>),
     ShapeTreeOf(<<OwnQuantifier(LetterA, 0, Infinity, TRUE)>>)}

(***************************************************************************)
(* The calls of the timing probe made by one call of detectRisks.          *)
(***************************************************************************)
\* the probe called for every supplied pattern, whatever rule 2 found
probesWheneverPattern(ast, flags, ctx) ==
    IF ctx.given THEN <<[flags |-> stripFirstG(flagsStrOf(flags))]>> ELSE <<>>

\* rule 2: if (backShapes) { if (ctx?.pattern) dynamicBacktrackingProbe(
\* ctx.pattern, flagsToString(flags)) }, which compiles with
\* flags.replace("g", "")
probesOf(ast, flags, ctx) ==
    IF detectObviousBacktrackingShapes(ast) # <<>> /\ ctx.given
    THEN <<[flags |-> stripFirstG(flagsStrOf(flags))]>>
    ELSE <<>>

\* ctx: none, or a pattern whose probe is slow, is fast, or fails in the
\* compile or the test
ShapeCtxs ==
    RiskCtxs \cup {[given |-> TRUE, probe |-> "fast"], [given |-> TRUE, probe |-> "fails"]}

(***************************************************************************)
(* The debounce timer of ui.js.  A timer is the id setTimeout returned; the *)
(* pending timers are the ids that were set and neither fired nor were      *)
(* cleared.  0 stands for the null debounceTimer starts with.              *)
(***************************************************************************)
MaxTimerIds == 6
MaxRuns == 6

\* clearTimeout without effect
clearTimeoutIgnored(pending, id) == pending

\* clearTimeout(id): the timer is no longer pending; null, an id that fired
\* or was cleared before are ignored
clearTimeout(pending, id) == pending \ {id}

\* setTimeout(runAnalysis, 350): a fresh id, now pending
setTimeout(pending, id) == pending \cup {id}

(***************************************************************************)
(* Feature vectors for scoreCandidates taken by themselves: the boolean     *)
(* fields extractFeatures sets, and the exact counts the blocks ask for.    *)
(***************************************************************************)
FeatureNames ==
    {"hasStartAnchor", "hasEndAnchor", "hasWordBoundary", "hasAlternation",
     "hasLookaround", "usesAtSign", "usesColon", "usesSlash", "usesDotLiteral",
     "usesHyphenLiteral", "usesUnderscoreLiteral", "usesPlusLiteral",
     "usesQuestionLiteral", "usesDigitClass", "usesHexClass",
     "usesBraceQuantifier", "containsUUIDHyphenPattern", "containsSemverDots",
     "containsIPv4DotStructure", "containsIPv6ColonStructure"}

\* the counts some block of scoreCandidates looks for
AskedCounts == {2, 4, 8, 12, 32, 40, 64}

FeatureVector(S, counts) ==
    [n \in FeatureNames \cup {"containsExactCounts"} |->
        IF n = "containsExactCounts" THEN counts ELSE n \in S]

\* every signal present: each block but the one with a penalty scores its maximum
AllSignals == FeatureVector(FeatureNames, AskedCounts)

ScoreVectors ==
    {FeatureVector(S, counts) :
        S \in {Few \in SUBSET FeatureNames : Cardinality(Few) <= 2} \cup {FeatureNames},
        counts \in {{}, {2, 4}, AskedCounts}}

(***************************************************************************)
(* Specifications                                                          *)
(***************************************************************************)
ParseIdle ==
    /\ pPhase = "idle"
    /\ pIn = [isString |-> TRUE, body |-> <<>>, flags |-> <<>>]
    /\ pOut = NoResult

IntentIdle ==
    /\ iPhase = "idle"
    /\ iIn = [ast |-> TreeOf({}, FALSE, FALSE), flags |-> NoFlags]
    /\ iF = <<>>
    /\ iCands = <<>>
    /\ iOut = NoIntent

RiskIdle ==
    /\ rPhase = "idle"
    /\ rIn = [ast |-> RiskTreeOf({}, FALSE, FALSE), flags |-> NoFlags,
              sampleText |-> NoSample, ctx |-> NoCtx]
    /\ rOut = NoWarnings
    /\ rProbes = <<>>

EstIdle ==
    /\ ePhase = "idle"
    /\ eIn = [ast |-> [root |-> EstPlain, parentLinks |-> FALSE], pattern |-> <<>>,
              flagsStr |-> <<>>, sampleText |-> <<>>, matches |-> <<>>,
              guard |-> NoGuard]
    /\ eOut = NoEstimate

ExplainIdle ==
    /\ xPhase = "idle"
    /\ xIn = [ast |-> NoAst, flags |-> <<>>]
    /\ xOut = NoExplanation

RunIdle ==
    /\ uPc = "load"
    /\ uDom = [pattern |-> <<>>, flags |-> NoFlags, sample |-> <<>>]
    /\ uTimer = FALSE
    /\ uRun = NoRun
    /\ uCalls = <<>>
    /\ uStatus = "Waiting..."

WalkIdle ==
    /\ wWalker = "risks"
    /\ wGraph = ParsedAB
    /\ wStack = <<>>
    /\ wSeen = {}
    /\ wVisited = <<>>
    /\ wStatus = "idle"

ExecIdle ==
    /\ mPhase = "idle"
    /\ mIn = [pattern |-> <<>>, flags |-> <<>>, text |-> <<>>, guard |-> DEFAULT_GUARD]
    /\ mOut = NoMatches

SessionIdle ==
    /\ sGiven = [ast |-> EstPlain, parentLinks |-> FALSE, flags |-> NoFlags,
                 sampleText |-> <<"a", "b", "1">>, matches |-> <<>>,
                 pattern |-> <<"a">>]
    /\ sNow = sGiven
    /\ sCalls = 0
    /\ sOut = [c \in Components |-> NotCalled]

DebounceIdle ==
    /\ dTimer = 0
    /\ dPending = {}
    /\ dIds = 0
    /\ dLast = "none"
    /\ dRuns = 0
    /\ dBurst = 0

LoopIdle ==
    /\ lPc = "idle"
    /\ lIn = [pattern |-> <<>>, flags |-> <<>>, text |-> <<>>, guard |-> DEFAULT_GUARD]
    /\ lLast = 0
    /\ lSafety = 0
    /\ lResults = <<>>
    /\ lFault = "none"

ParseInit ==
    /\ pPhase = "idle"
    /\ pIn \in ParserInputs
    /\ pOut = NoResult
    /\ IntentIdle /\ RiskIdle /\ EstIdle /\ ExplainIdle /\ RunIdle /\ WalkIdle /\ ExecIdle /\ SessionIdle /\ DebounceIdle /\ LoopIdle

ParseCall ==
    /\ pPhase = "idle"
    /\ pOut' = parsePattern(pIn)
    /\ pPhase' = "done"
    /\ UNCHANGED <<pIn, intentVars, riskVars, estVars, explainVars, runVars, walkVars, execVars, sessVars, debVars, loopVars>>

ParseNext == ParseCall

SpecParse == ParseInit /\ [][ParseNext]_vars

IntentInit ==
    /\ iPhase = "idle"
    /\ iIn \in {[ast |-> t, flags |-> [NoFlags EXCEPT !.i = ci]] :
                    t \in FragmentTrees, ci \in BOOLEAN}
    /\ iF = <<>>
    /\ iCands = <<>>
    /\ iOut = NoIntent
    /\ ParseIdle /\ RiskIdle /\ EstIdle /\ ExplainIdle /\ RunIdle /\ WalkIdle /\ ExecIdle /\ SessionIdle /\ DebounceIdle /\ LoopIdle

\* inferIntent(ast, flags), its locals f and cands kept
InferIntentCall ==
    /\ iPhase = "idle"
    /\ iF' = extractFeatures(iIn.ast, iIn.flags)
    /\ iCands' = sortByScore(clampScores(scoreCandidates(iF', iIn.flags)))
    /\ iOut' = pickIntent(iCands')
    /\ iPhase' = "done"
    /\ UNCHANGED <<iIn, parseVars, riskVars, estVars, explainVars, runVars, walkVars, execVars, sessVars, debVars, loopVars>>

IntentNext == InferIntentCall

SpecIntent == IntentInit /\ [][IntentNext]_vars

RiskInit ==
    /\ rPhase = "idle"
    /\ rIn \in {[ast |-> t, flags |-> f, sampleText |-> x, ctx |-> c] :
                    t \in RiskTrees, f \in RiskFlags, x \in RiskSamples,
                    c \in RiskCtxs}
    /\ rOut = NoWarnings
    /\ rProbes = <<>>
    /\ ParseIdle /\ IntentIdle /\ EstIdle /\ ExplainIdle /\ RunIdle /\ WalkIdle /\ ExecIdle /\ SessionIdle /\ DebounceIdle /\ LoopIdle

DetectRisksCall ==
    /\ rPhase = "idle"
    /\ rOut' = detectRisks(rIn.ast, rIn.flags, rIn.sampleText, rIn.ctx)
    /\ rProbes' = probesOf(rIn.ast, rIn.flags, rIn.ctx)
    /\ rPhase' = "done"
    /\ UNCHANGED <<rIn, parseVars, intentVars, estVars, explainVars, runVars, walkVars, execVars, sessVars, debVars, loopVars>>

RiskNext == DetectRisksCall

SpecRisk == RiskInit /\ [][RiskNext]_vars

EstInit ==
    /\ ePhase = "idle"
    /\ eIn \in EstInputs
    /\ eOut = NoEstimate
    /\ ParseIdle /\ IntentIdle /\ RiskIdle /\ ExplainIdle /\ RunIdle /\ WalkIdle /\ ExecIdle /\ SessionIdle /\ DebounceIdle /\ LoopIdle

EstimateCall ==
    /\ ePhase = "idle"
    /\ eOut' = estimateFalsePosNeg(eIn)
    /\ ePhase' = "done"
    /\ UNCHANGED <<eIn, parseVars, intentVars, riskVars, explainVars, runVars, walkVars, execVars, sessVars, debVars, loopVars>>

EstNext == EstimateCall

SpecEst == EstInit /\ [][EstNext]_vars

ExplainInit ==
    /\ xPhase = "idle"
    /\ xIn \in {[ast |-> t, flags |-> f] : t \in ExplainTrees, f \in FlagStrings}
    /\ xOut = NoExplanation
    /\ ParseIdle /\ IntentIdle /\ RiskIdle /\ EstIdle /\ RunIdle /\ WalkIdle /\ ExecIdle /\ SessionIdle /\ DebounceIdle /\ LoopIdle

ExplainCall ==
    /\ xPhase = "idle"
    /\ xOut' = explainPattern(xIn.ast, xIn.flags)
    /\ xPhase' = "done"
    /\ UNCHANGED <<xIn, parseVars, intentVars, riskVars, estVars, runVars, walkVars, execVars, sessVars, debVars, loopVars>>

ExplainNext == ExplainCall

SpecExplain == ExplainInit /\ [][ExplainNext]_vars

RunInit ==
    /\ uPc = "load"
    /\ uDom \in {[pattern |-> p, flags |-> f, sample |-> x] :
                    p \in DomPatterns, f \in DomFlags, x \in DomSamples}
    /\ uTimer = FALSE
    /\ uRun = NoRun
    /\ uCalls = <<>>
    /\ uStatus = "Waiting..."
    /\ ParseIdle /\ IntentIdle /\ RiskIdle /\ EstIdle /\ ExplainIdle /\ WalkIdle /\ ExecIdle /\ SessionIdle /\ DebounceIdle /\ LoopIdle

\* runAnalysis from its first line to the parse and what follows it at once:
\* resetOutputs, parsePattern, then renderError and return, or renderStatus
StartRun ==
    LET run == runLocals(uDom)
        parseResult == parsePattern([isString |-> TRUE, body |-> run.patternBody,
                                     flags |-> run.flagsStr])
    IN  /\ uRun' = [run EXCEPT !.parsed = TRUE, !.parseOk = parseResult.ok]
        /\ uCalls' = <<"parsePattern">>
        /\ uStatus' = statusAfterParse(parseResult)
        /\ uPc' = afterParse(parseResult)

\* init(): the listeners are attached; a prefilled pattern is analysed
InitPage ==
    /\ uPc = "load"
    /\ IF uDom.pattern # <<>> THEN StartRun
       ELSE uPc' = "idle" /\ UNCHANGED <<uRun, uCalls, uStatus>>
    /\ UNCHANGED <<uDom, uTimer, parseVars, intentVars, riskVars, estVars, explainVars, walkVars, execVars, sessVars, debVars, loopVars>>

\* an input or change event of one field: handleInput re-arms the timer
HandleInput ==
    /\ uPc = "idle"
    /\ \/ \E p \in DomPatterns : uDom' = [uDom EXCEPT !.pattern = p]
       \/ \E f \in DomFlags : uDom' = [uDom EXCEPT !.flags = f]
       \/ \E x \in DomSamples : uDom' = [uDom EXCEPT !.sample = x]
    /\ uTimer' = TRUE
    /\ UNCHANGED <<uPc, uRun, uCalls, uStatus, parseVars, intentVars, riskVars, estVars, explainVars, walkVars, execVars, sessVars, debVars, loopVars>>

\* the debounce timer fires after 350 ms
TimerFires ==
    /\ uPc = "idle" /\ uTimer
    /\ uTimer' = FALSE
    /\ StartRun
    /\ UNCHANGED <<uDom, parseVars, intentVars, riskVars, estVars, explainVars, walkVars, execVars, sessVars, debVars, loopVars>>

\* the click on the run button: clearTimeout, runAnalysis
ClickRun ==
    /\ uPc = "idle"
    /\ uTimer' = FALSE
    /\ StartRun
    /\ UNCHANGED <<uDom, parseVars, intentVars, riskVars, estVars, explainVars, walkVars, execVars, sessVars, debVars, loopVars>>

\* 2. inferIntent, renderIntent
RunIntent ==
    /\ uPc = "intent"
    /\ uCalls' = Append(uCalls, "inferIntent")
    /\ uPc' = "explain"
    /\ UNCHANGED <<uDom, uTimer, uRun, uStatus, parseVars, intentVars, riskVars, estVars, explainVars, walkVars, execVars, sessVars, debVars, loopVars>>

\* 3. explainPattern, renderExplanation
RunExplain ==
    /\ uPc = "explain"
    /\ uCalls' = Append(uCalls, "explainPattern")
    /\ uPc' = "execute"
    /\ UNCHANGED <<uDom, uTimer, uRun, uStatus, parseVars, intentVars, riskVars, estVars, explainVars, walkVars, execVars, sessVars, debVars, loopVars>>

\* 4. executeRegex when there is a sample text; the preview returns no match
\* or some
RunExecute ==
    /\ uPc = "execute"
    /\ IF Len(uRun.sampleText) > 0
       THEN /\ uCalls' = Append(uCalls, "executeRegex")
            /\ \E n \in 0..1 : uRun' = [uRun EXCEPT !.matchCount = n]
       ELSE UNCHANGED <<uCalls, uRun>>
    /\ uPc' = "risks"
    /\ UNCHANGED <<uDom, uTimer, uStatus, parseVars, intentVars, riskVars, estVars, explainVars, walkVars, execVars, sessVars, debVars, loopVars>>

\* 5. renderAdvancedAnalysis: detectRisks; a throw of detectRisks ends the run
RunRisks ==
    /\ uPc = "risks"
    /\ uCalls' = Append(uCalls, "detectRisks")
    /\ \E threw \in BOOLEAN :
          /\ uRun' = [uRun EXCEPT !.threw = threw]
          /\ uPc' = IF threw THEN "idle"
                    ELSE IF estimatorRuns(uRun) THEN "estimate" ELSE "idle"
    /\ UNCHANGED <<uDom, uTimer, uStatus, parseVars, intentVars, riskVars, estVars, explainVars, walkVars, execVars, sessVars, debVars, loopVars>>

\* renderAdvancedAnalysis: estimateFalsePosNeg, renderRisksAndFpFn
RunEstimate ==
    /\ uPc = "estimate"
    /\ uCalls' = Append(uCalls, "estimateFalsePosNeg")
    /\ \E threw \in BOOLEAN : uRun' = [uRun EXCEPT !.threw = threw]
    /\ uPc' = "idle"
    /\ UNCHANGED <<uDom, uTimer, uStatus, parseVars, intentVars, riskVars, estVars, explainVars, walkVars, execVars, sessVars, debVars, loopVars>>

RunNext ==
    \/ InitPage \/ HandleInput \/ TimerFires \/ ClickRun
    \/ RunIntent \/ RunExplain \/ RunExecute \/ RunRisks \/ RunEstimate

SpecRun == RunInit /\ [][RunNext]_vars

WalkInit ==
    /\ wWalker \in Walkers
    /\ wGraph \in WalkGraphs
    /\ wStack = <<>>
    /\ wSeen = {}
    /\ wVisited = <<>>
    /\ wStatus = "idle"
    /\ ParseIdle /\ IntentIdle /\ RiskIdle /\ EstIdle /\ ExplainIdle /\ RunIdle /\ ExecIdle /\ SessionIdle /\ DebounceIdle /\ LoopIdle

\* the call walk(node, fn) on the object c: the guard, seen.add, fn(node) and
\* the new frame; RangeError when the stack is full
WalkEnter(c, stack) ==
    IF c = 0 \/ (keepsSeen(wWalker) /\ c \in wSeen)
    THEN /\ wStack' = stack
         /\ UNCHANGED <<wSeen, wVisited, wStatus, execVars, sessVars, debVars, loopVars>>
    ELSE IF Len(stack) >= MaxStack
    THEN /\ wStatus' = "overflow"
         /\ wStack' = <<>>
         /\ UNCHANGED <<wSeen, wVisited, execVars, sessVars, debVars, loopVars>>
    ELSE /\ wStack' = Append(stack, Frame(c))
         /\ wSeen' = IF keepsSeen(wWalker) THEN wSeen \cup {c} ELSE wSeen
         /\ wVisited' = Append(wVisited, c)
         /\ UNCHANGED wStatus

\* the caller's walk(ast, fn)
WalkCall ==
    /\ wStatus = "idle"
    /\ wStatus' = "running"
    /\ wStack' = <<Frame(wGraph.root)>>
    /\ wSeen' = IF keepsSeen(wWalker) THEN {wGraph.root} ELSE {}
    /\ wVisited' = <<wGraph.root>>
    /\ UNCHANGED <<wWalker, wGraph, parseVars, intentVars, riskVars, estVars, explainVars, runVars, execVars, sessVars, debVars, loopVars>>

\* one turn of the loops of the innermost call: the next key is passed over,
\* or the next element of its value is walked
WalkField ==
    /\ wStatus = "running" /\ wStack # <<>>
    /\ LET top == wStack[Len(wStack)]
           fields == wGraph.heap[top.node]
           field == fields[top.key]
           nextKey == [wStack EXCEPT ![Len(wStack)] = [top EXCEPT !.key = @ + 1, !.elem = 1]]
           nextElem == [wStack EXCEPT ![Len(wStack)] = [top EXCEPT !.elem = @ + 1]]
       IN  /\ top.key <= Len(fields)
           /\ IF (field.key = "parent" /\ skipsParent(wWalker)) \/ top.elem > Len(field.refs)
              THEN wStack' = nextKey /\ UNCHANGED <<wSeen, wVisited, wStatus>>
              ELSE WalkEnter(field.refs[top.elem], nextElem)
    /\ UNCHANGED <<wWalker, wGraph, parseVars, intentVars, riskVars, estVars, explainVars, runVars, execVars, sessVars, debVars, loopVars>>

\* the innermost call has no key left and returns
WalkReturn ==
    /\ wStatus = "running" /\ wStack # <<>>
    /\ LET top == wStack[Len(wStack)]
       IN  top.key > Len(wGraph.heap[top.node])
    /\ wStack' = SubSeq(wStack, 1, Len(wStack) - 1)
    /\ wStatus' = IF Len(wStack) = 1 THEN "returned" ELSE "running"
    /\ UNCHANGED <<wWalker, wGraph, wSeen, wVisited, parseVars, intentVars, riskVars, estVars, explainVars, runVars, execVars, sessVars, debVars, loopVars>>

WalkNext == WalkCall \/ WalkField \/ WalkReturn

SpecWalk == WalkInit /\ [][WalkNext]_vars

ExecInit ==
    /\ mPhase = "idle"
    /\ mIn \in {[pattern |-> p, flags |-> f, text |-> t, guard |-> g] :
                    p \in ExecPatterns, f \in ExecFlags, t \in ExecTexts,
                    g \in ExecGuards}
    /\ mOut = NoMatches
    /\ ParseIdle /\ IntentIdle /\ RiskIdle /\ EstIdle /\ ExplainIdle /\ RunIdle /\ WalkIdle /\ SessionIdle /\ DebounceIdle /\ LoopIdle

ExecuteCall ==
    /\ mPhase = "idle"
    /\ mOut' = [matches |-> executeRegex(mIn.pattern, mIn.flags, mIn.text, mIn.guard)]
    /\ mPhase' = "done"
    /\ UNCHANGED <<mIn, parseVars, intentVars, riskVars, estVars, explainVars, runVars, walkVars, sessVars, debVars, loopVars>>

ExecNext == ExecuteCall

SpecExec == ExecInit /\ [][ExecNext]_vars

SessionInit ==
    /\ sGiven \in SessionObjects
    /\ sNow = sGiven
    /\ sCalls = 0
    /\ sOut = [c \in Components |-> NotCalled]
    /\ ParseIdle /\ IntentIdle /\ RiskIdle /\ EstIdle /\ ExplainIdle /\ RunIdle /\ WalkIdle /\ ExecIdle /\ DebounceIdle /\ LoopIdle

\* one consumer is called on the objects as they are now
Call(c) ==
    /\ sCalls < MaxCalls
    /\ sOut' = [sOut EXCEPT ![c] = Returned(resultOf(c, sNow))]
    /\ sNow' = objectsAfter(c, sNow)
    /\ sCalls' = sCalls + 1
    /\ UNCHANGED <<sGiven, parseVars, intentVars, riskVars, estVars, explainVars, runVars, walkVars, execVars, debVars, loopVars>>

CallExplainPattern == Call("explainPattern")
CallInferIntent == Call("inferIntent")
CallDetectRisks == Call("detectRisks")
CallEstimateFalsePosNeg == Call("estimateFalsePosNeg")

SessionNext ==
    \/ CallExplainPattern
    \/ CallInferIntent
    \/ CallDetectRisks
    \/ CallEstimateFalsePosNeg

SpecSession == SessionInit /\ [][SessionNext]_vars

\* detectRisks on trees of both shapes
ShapesInit ==
    /\ rPhase = "idle"
    /\ rIn \in {[ast |-> t, flags |-> f, sampleText |-> x, ctx |-> c] :
                    t \in RiskTrees \cup ShapeTrees \cup CountingTrees,
                    f \in RiskFlags,
                    x \in RiskSamples, c \in ShapeCtxs}
    /\ rOut = NoWarnings
    /\ rProbes = <<>>
    /\ ParseIdle /\ IntentIdle /\ EstIdle /\ ExplainIdle /\ RunIdle /\ WalkIdle /\ ExecIdle /\ SessionIdle /\ DebounceIdle /\ LoopIdle

SpecShapes == ShapesInit /\ [][RiskNext]_vars

DebounceInit ==
    /\ DebounceIdle
    /\ ParseIdle /\ IntentIdle /\ RiskIdle /\ EstIdle /\ ExplainIdle /\ RunIdle /\ WalkIdle /\ ExecIdle /\ SessionIdle /\ LoopIdle

\* handleInput: clearTimeout(debounceTimer); debounceTimer = setTimeout(...)
DebounceInput ==
    /\ dIds < MaxTimerIds
    /\ dIds' = dIds + 1
    /\ dTimer' = dIds'
    /\ dPending' = setTimeout(clearTimeout(dPending, dTimer), dIds')
    /\ dLast' = "input"
    /\ dBurst' = 0
    /\ UNCHANGED <<dRuns, parseVars, intentVars, riskVars, estVars, explainVars, runVars, walkVars, execVars, sessVars, loopVars>>

\* the click handler of the run button: clearTimeout(debounceTimer); runAnalysis()
DebounceClick ==
    /\ dRuns < MaxRuns
    /\ dPending' = clearTimeout(dPending, dTimer)
    /\ dRuns' = dRuns + 1
    /\ dLast' = "click"
    /\ UNCHANGED <<dTimer, dIds, dBurst, parseVars, intentVars, riskVars, estVars, explainVars, runVars, walkVars, execVars, sessVars, loopVars>>

\* a pending timer expires: runAnalysis is called; debounceTimer keeps the id
DebounceExpiry ==
    /\ dRuns < MaxRuns
    /\ \E id \in dPending : dPending' = dPending \ {id}
    /\ dRuns' = dRuns + 1
    /\ dBurst' = dBurst + 1
    /\ dLast' = "timer"
    /\ UNCHANGED <<dTimer, dIds, parseVars, intentVars, riskVars, estVars, explainVars, runVars, walkVars, execVars, sessVars, loopVars>>

DebounceNext == DebounceInput \/ DebounceClick \/ DebounceExpiry

SpecDebounce == DebounceInit /\ [][DebounceNext]_vars

ScoreInit ==
    /\ iPhase = "idle"
    /\ iIn \in {[flags |-> [NoFlags EXCEPT !.i = ci]] : ci \in BOOLEAN}
    /\ iF \in ScoreVectors
    /\ iCands = <<>>
    /\ iOut = NoIntent
    /\ ParseIdle /\ RiskIdle /\ EstIdle /\ ExplainIdle /\ RunIdle /\ WalkIdle /\ ExecIdle /\ SessionIdle /\ DebounceIdle /\ LoopIdle

\* inferIntent from the feature vector on: score, clamp, sort, pick
ScoreCall ==
    /\ iPhase = "idle"
    /\ iCands' = sortByScore(clampScores(scoreCandidates(iF, iIn.flags)))
    /\ iOut' = pickIntent(iCands')
    /\ iPhase' = "done"
    /\ UNCHANGED <<iIn, iF, parseVars, riskVars, estVars, explainVars, runVars, walkVars, execVars, sessVars, debVars, loopVars>>

ScoreNext == ScoreCall

SpecScore == ScoreInit /\ [][ScoreNext]_vars

(***************************************************************************)
(* executeRegex one iteration at a time: lLast is re.lastIndex, lSafety the *)
(* counter, lResults the array results.                                    *)
(***************************************************************************)
LoopInit ==
    /\ lPc = "idle"
    /\ lIn \in {[pattern |-> p, flags |-> f, text |-> t, guard |-> g] :
                    p \in ExecPatterns, f \in ExecFlags, t \in ExecTexts,
                    g \in ExecGuards}
    /\ lLast = 0
    /\ lSafety = 0
    /\ lResults = <<>>
    /\ lFault = "none"
    /\ ParseIdle /\ IntentIdle /\ RiskIdle /\ EstIdle /\ ExplainIdle /\ RunIdle /\ WalkIdle /\ ExecIdle /\ SessionIdle /\ DebounceIdle

\* the call up to the while loop: the empty text returns at once, a pattern
\* that does not compile is caught, without g there is one exec
LoopEnter ==
    /\ lPc = "idle"
    /\ LET re == safeCompile(lIn.pattern, lIn.flags)
           match == regexExec(re, 0, lIn.text)
       IN  IF lIn.text = <<>> THEN
               /\ lPc' = "done"
               /\ UNCHANGED <<lResults, lFault>>
           ELSE IF ~re.ok THEN
               /\ lPc' = "done"
               /\ lFault' = "compile"
               /\ UNCHANGED lResults
           ELSE IF "g" \in Range(lIn.flags) THEN
               /\ lPc' = "loop"
               /\ UNCHANGED <<lResults, lFault>>
           ELSE
               /\ lPc' = "done"
               /\ lResults' = IF match.index # -1
                              THEN <<formatMatch(match, lIn.text)>> ELSE <<>>
               /\ UNCHANGED lFault
    /\ UNCHANGED <<lIn, lLast, lSafety, parseVars, intentVars, riskVars, estVars, explainVars, runVars, walkVars, execVars, sessVars, debVars>>

\* one evaluation of the loop condition and, when it holds, of the body
LoopIterate ==
    /\ lPc = "loop"
    /\ LET match == regexExec(safeCompile(lIn.pattern, lIn.flags), lLast, lIn.text)
       IN  IF match.index = -1 THEN
               /\ lPc' = "done"
               /\ lLast' = match.lastIndex
               /\ UNCHANGED <<lSafety, lResults>>
           ELSE IF lSafety > lIn.guard.maxMatches THEN
               /\ lPc' = "done"
               /\ lLast' = match.lastIndex
               /\ lSafety' = lSafety + 1
               /\ UNCHANGED lResults
           ELSE
               /\ lPc' = "loop"
               /\ lSafety' = lSafety + 1
               /\ lResults' = Append(lResults, formatMatch(match, lIn.text))
               /\ lLast' = nextLastIndex(match)
    /\ UNCHANGED <<lIn, lFault, parseVars, intentVars, riskVars, estVars, explainVars, runVars, walkVars, execVars, sessVars, debVars>>

\* an exception inside the loop: the catch block logs it and the function
\* goes on to its return statement
LoopFault ==
    /\ lPc = "loop"
    /\ lPc' = "done"
    /\ lFault' = "exec"
    /\ UNCHANGED <<lIn, lLast, lSafety, lResults, parseVars, intentVars, riskVars, estVars, explainVars, runVars, walkVars, execVars, sessVars, debVars>>

LoopNext == LoopEnter \/ LoopIterate \/ LoopFault

SpecLoop == LoopInit /\ [][LoopNext]_vars /\ WF_vars(LoopNext)

(***************************************************************************)
(* Claims                                                                  *)
(***************************************************************************)

\* C1: parsePattern(body, flags).ok is true exactly when the runtime engine
\* compiles (body, flags); stated here for the bodies the claim singles out,
\* those that contain '/' bare or already escaped as '\/'.
ParserAgreesWithEngine ==
    (pPhase = "done" /\ pIn.isString /\ "/" \in Range(pIn.body)) =>
        (pOut.ok = EngineCompiles(pIn.body, pIn.flags))

\* C2: parsePattern never throws; every failure is returned with ok = FALSE
\* and a non-empty message.
ParseFailureIsData ==
    pPhase = "done" =>
        /\ pOut.outcome = "returned"
        /\ (~pOut.ok => pOut.message # "")

ParseFailureSeen ==
    /\ pPhase = "done"
    /\ pIn.isString /\ pIn.body = <<"(", "a">>
    /\ ~pOut.ok

\* C3: a named label comes with a confidence in [0.35, 0.9], the general
\* fallback label with a confidence of at most 0.55.
ConfidenceBounds ==
    iPhase = "done" =>
        IF iOut.label = INTENT_LABELS.GENERAL THEN iOut.confidence <= 550
        ELSE iOut.confidence >= 350 /\ iOut.confidence <= 900

\* a best score below the threshold whose confidence the fallback lowers to 0.55
FallbackCapSeen ==
    /\ iPhase = "done"
    /\ iOut.label = INTENT_LABELS.GENERAL /\ iOut.confidence = 550
    /\ toConfidence(iCands[1].score) > 550

\* C4 as stated: the returned confidence is strictly below 0.9.
ConfidenceBelowCap == iPhase = "done" => iOut.confidence < 900

\* C4 amended: the returned confidence never exceeds 0.9, and it is exactly
\* 0.9 when the winning clamped score is 92 or more.
ConfidenceAtMostCap ==
    iPhase = "done" =>
        /\ iOut.confidence <= 900
        /\ (iOut.confidence = 900) <=> (iCands[1].score >= 92)

ConfidenceCapReached ==
    iPhase = "done" /\ iOut.label = INTENT_LABELS.UUID /\ iOut.confidence = 900

\* C10: with '@', an escaped dot, both anchors and no candidate scoring above
\* the email-like one, inferIntent returns the email-like label with a
\* confidence of at least 0.6.
EmailShapeWins ==
    (/\ iPhase = "done"
     /\ iF.usesAtSign /\ iF.usesDotLiteral /\ iF.hasStartAnchor /\ iF.hasEndAnchor
     /\ \A k \in 1..Len(iCands) :
            iCands[k].label # INTENT_LABELS.EMAIL_LIKE =>
                \E e \in 1..Len(iCands) :
                    iCands[e].label = INTENT_LABELS.EMAIL_LIKE /\ iCands[k].score <= iCands[e].score)
    => (iOut.label = INTENT_LABELS.EMAIL_LIKE /\ iOut.confidence >= 600)

EmailShapeSeen ==
    /\ iPhase = "done"
    /\ iIn.ast = TreeOf({1, 2}, TRUE, TRUE)
    /\ iOut.label = INTENT_LABELS.EMAIL_LIKE

\* the severities of the returned warnings with a given id
SeverityOf(id) ==
    {rOut.warnings[k].severity : k \in {x \in 1..Len(rOut.warnings) : rOut.warnings[x].id = id}}

\* C5: no message of a returned warning contains "will", "always" or
\* "guaranteed".
MessagesAreHedged ==
    rPhase = "done" =>
        \A k \in 1..Len(rOut.warnings) :
            Range(rOut.warnings[k].message) \cap {"will", "always", "guaranteed"} = {}

\* the tree of (a+)+$: Quantifier > CapturingGroup > Alternative > Quantifier
NestedShape == RiskTreeOf({1}, FALSE, TRUE)

\* C8: for the tree of (a+)+$ detectRisks returns a NESTED_QUANTIFIERS warning
\* of severity high and a POTENTIAL_BACKTRACKING warning of severity high.
NestedShapeGetsBothWarnings ==
    (rPhase = "done" /\ rIn.ast = NestedShape) =>
        /\ SeverityOf(RISK.NESTED_QUANTIFIERS) = {"high"}
        /\ SeverityOf(RISK.POTENTIAL_BACKTRACKING) = {"high"}

\* C9: UNANCHORED_MISMATCH is in the returned list exactly when the global
\* flag is not set and exactly one of a start and an end assertion occurs in
\* the tree, at any depth; its severity is low.
UnanchoredIffOneAnchor ==
    rPhase = "done" =>
        LET N == walk(rIn.ast)
            hasStart == \E k \in 1..Len(N) : N[k].type = "Assertion" /\ N[k].kind = "start"
            hasEnd == \E k \in 1..Len(N) : N[k].type = "Assertion" /\ N[k].kind = "end"
        IN  /\ (SeverityOf(RISK.UNANCHORED_MISMATCH) # {}) <=> (~rIn.flags.g /\ (hasStart # hasEnd))
            /\ SeverityOf(RISK.UNANCHORED_MISMATCH) \subseteq {"low"}

\* C6: the result of estimateFalsePosNeg has at most 6 likely false positives
\* and at most 6 likely false negatives, and the number of pattern tests run
\* in the two phases together is at most the configured maxTotalWork.
EstimateWithinCaps ==
    ePhase = "done" =>
        /\ eOut.used <= limitsOf(eIn.guard).maxTotalWork
        /\ eOut.outcome = "returned" =>
              /\ Len(eOut.likelyFalsePositives) <= 6
              /\ Len(eOut.likelyFalseNegatives) <= 6

\* a run that fills a list and uses up a configured work budget
EstimateCapsReached ==
    /\ ePhase = "done" /\ eOut.outcome = "returned"
    /\ Len(eOut.likelyFalseNegatives) = 6
    /\ Has(eIn.guard, "maxTotalWork") /\ eOut.used = eIn.guard.maxTotalWork

\* C7: with an empty match list both lists are empty, there is at least one
\* note and no pattern test is run; with a pattern that does not compile once
\* the global flag is stripped the call returns two empty lists and a note.
EstimateEarlyExits ==
    ePhase = "done" =>
        /\ Len(eIn.matches) = 0 =>
              /\ eOut.outcome = "returned"
              /\ eOut.likelyFalsePositives = <<>> /\ eOut.likelyFalseNegatives = <<>>
              /\ Len(eOut.notes) >= 1
              /\ eOut.used = 0
        /\ ~EngineCompiles(eIn.pattern, stripFirstG(eIn.flagsStr)) =>
              /\ eOut.outcome = "returned"
              /\ eOut.likelyFalsePositives = <<>> /\ eOut.likelyFalseNegatives = <<>>
              /\ Len(eOut.notes) >= 1

\* a pattern that does not compile, with matches and a tree from the parser
EstimateRefusedPattern ==
    /\ ePhase = "done"
    /\ ~EngineCompiles(eIn.pattern, stripFirstG(eIn.flagsStr))
    /\ Len(eIn.matches) > 0 /\ eIn.ast.parentLinks
    /\ eOut.outcome = "returned" /\ Len(eOut.notes) = 1

\* C11: explainPattern never returns an empty components list: a tree whose
\* only top-level alternative has no element, or that has no alternative,
\* gets the "Empty pattern" entry, and every tree gets a non-empty summary
\* and a non-empty components list.
ComponentsNeverEmpty ==
    (xPhase = "done" /\ xIn.ast # NoAst) =>
        /\ xOut.summary # <<>>
        /\ xOut.components # <<>>
        /\ (\/ xIn.ast.alternatives = <<>>
            \/ (Len(xIn.ast.alternatives) = 1 /\ xIn.ast.alternatives[1].elements = <<>>))
           => <<"Empty pattern">> \in Range(xOut.components)

\* C12: in a run of runAnalysis whose parse returned ok = FALSE, parsePattern
\* is the only component called, the parse error is rendered and the run is
\* over.
ParseFailureStopsRun ==
    (uRun.parsed /\ ~uRun.parseOk) =>
        /\ uCalls = <<"parsePattern">>
        /\ uStatus = "Error"
        /\ uPc = "idle"

ParseFailureStoppedRun ==
    /\ uRun.parsed /\ ~uRun.parseOk
    /\ uRun.patternBody = <<"(">>
    /\ uCalls = <<"parsePattern">> /\ uStatus = "Error" /\ uPc = "idle"

\* C13: detectRisks is total: for every tree, flag record and sample text
\* the call returns a list of warnings and does not throw.
DetectRisksIsTotal ==
    rPhase = "done" => ~rOut.threw

\* C14: each of the three walks ends on a tree with parent back-references
\* or with shared or cyclic objects, without exhausting the stack, and has
\* then called the visitor once on every node, in depth-first pre-order.
WalksVisitEveryNodeOnce ==
    /\ wStatus # "overflow"
    /\ wStatus = "returned" => VisitedInPreOrder(wVisited, Len(wGraph.heap))

\* C15: executeRegex returns at most guard.maxMatches match records, and at
\* most one without the global flag.
MatchesWithinGuard ==
    mPhase = "done" =>
        /\ Len(mOut.matches) <= mIn.guard.maxMatches
        /\ "g" \notin Range(mIn.flags) => Len(mOut.matches) <= 1

EmissionOrder ==
    <<"RISK_NESTED_QUANTIFIERS", "RISK_POTENTIAL_BACKTRACKING",
      "RISK_AMBIGUOUS_WILDCARD", "RISK_UNANCHORED_MISMATCH",
      "RISK_DOTALL_EXPECTED", "RISK_MULTILINE_ANCHOR_CONFUSION",
      "RISK_EMPTY_ALTERNATION", "RISK_OVERBROAD_CLASS",
      "RISK_REDUNDANT_QUANTIFIERS", "RISK_LOOKAROUND_COMPLEXITY",
      "RISK_STICKY_WITH_GLOBAL", "RISK_UNICODE_FLAG_MISMATCH">>

\* the place of an id in the fixed order, 0 for an id that is not in it
EmissionRank(id) ==
    IF \E k \in 1..Len(EmissionOrder) : EmissionOrder[k] = id
    THEN CHOOSE k \in 1..Len(EmissionOrder) : EmissionOrder[k] = id
    ELSE 0

\* C17: the ranks of the returned ids are positive and strictly increasing
WarningsInEmissionOrder ==
    rPhase = "done" =>
        /\ \A k \in 1..Len(rOut.warnings) : EmissionRank(rOut.warnings[k].id) > 0
        /\ \A j, k \in 1..Len(rOut.warnings) :
              j < k => EmissionRank(rOut.warnings[j].id) < EmissionRank(rOut.warnings[k].id)

SeveralWarningsReturned ==
    /\ rPhase = "done"
    /\ ~rOut.threw
    /\ Len(rOut.warnings) >= 3
    /\ rOut.warnings[1].id = "RISK_NESTED_QUANTIFIERS"
    /\ rOut.warnings[Len(rOut.warnings)].id = "RISK_STICKY_WITH_GLOBAL"

\* the warnings of a returned list that carry the id
WarningsWithId(id) ==
    {k \in 1..Len(rOut.warnings) : rOut.warnings[k].id = id}

\* C18: in a returned list a POTENTIAL_BACKTRACKING warning has severity
\* high if the list also holds a NESTED_QUANTIFIERS warning and medium
\* otherwise; a NESTED_QUANTIFIERS warning always has severity high and
\* stands before the backtracking warning.
BacktrackingSeverityFollowsNested ==
    rPhase = "done" =>
        /\ \A k \in WarningsWithId(RISK.POTENTIAL_BACKTRACKING) :
              rOut.warnings[k].severity =
                  IF WarningsWithId(RISK.NESTED_QUANTIFIERS) # {} THEN "high"
                  ELSE "medium"
        /\ \A j \in WarningsWithId(RISK.NESTED_QUANTIFIERS) :
              /\ rOut.warnings[j].severity = "high"
              /\ \A k \in WarningsWithId(RISK.POTENTIAL_BACKTRACKING) : j < k

BacktrackingRaisedByNested ==
    /\ rPhase = "done"
    /\ ~rOut.threw
    /\ Len(rOut.warnings) >= 2
    /\ rOut.warnings[1].id = RISK.NESTED_QUANTIFIERS
    /\ rOut.warnings[1].severity = "high"
    /\ rOut.warnings[2].id = RISK.POTENTIAL_BACKTRACKING
    /\ rOut.warnings[2].severity = "high"

\* a quantifier written in counting form that is equivalent to *, + or ?
IsRedundantCounting(n) ==
    /\ HasQ(n)
    /\ Includes(n.raw, <<"{">>)
    /\ LET q == QOf(n)
           max == IF Has(q, "max") THEN q.max ELSE Infinity
       IN  \/ q.min = 0 /\ max = Infinity
           \/ q.min = 1 /\ max = Infinity
           \/ q.min = 0 /\ max = 1

\* C19: when the tree holds a quantifier in counting form equivalent to *, +
\* or ? ({0,}, {1,}, {0,1}), detectRisks returns a list with exactly one
\* REDUNDANT_QUANTIFIERS warning, of severity info, whose evidence spans are
\* the spans of those quantifiers.
RedundantQuantifiersReported ==
    (rPhase = "done" /\ AnyNode(walk(rIn.ast), IsRedundantCounting)) =>
        /\ ~rOut.threw
        /\ \E k \in 1..Len(rOut.warnings) :
              /\ rOut.warnings[k].id = RISK.REDUNDANT_QUANTIFIERS
              /\ rOut.warnings[k].severity = "info"
              /\ rOut.warnings[k].evidence.patternSpans =
                    SpansWhere(walk(rIn.ast), IsRedundantCounting)
              /\ \A j \in 1..Len(rOut.warnings) :
                    rOut.warnings[j].id = RISK.REDUNDANT_QUANTIFIERS => j = k

\* a greedy quantifier on the dot set whose max is unbounded or above its min
IsGreedyDotQuantifier(n) ==
    /\ HasQ(n)
    /\ isDot(IF Has(n, "element") THEN n.element ELSE n)
    /\ LET q == QOf(n)
           max == IF Has(q, "max") THEN q.max ELSE Infinity
       IN  q.greedy /\ (max = Infinity \/ max > q.min)

\* C20: detectRisks emits an AMBIGUOUS_WILDCARD warning, of severity medium,
\* when the tree holds a greedy quantifier on the dot set whose max is
\* unbounded or above its min (a Quantifier node wrapping a CharacterSet of
\* kind dot), inside a quantified group or not, and does not emit it for a
\* lazy dot quantifier or one with max = min.
AmbiguousWildcardReported ==
    rPhase = "done" =>
        (AnyNode(walk(rIn.ast), IsGreedyDotQuantifier)
            <=> \E k \in 1..Len(rOut.warnings) :
                    /\ rOut.warnings[k].id = RISK.AMBIGUOUS_WILDCARD
                    /\ rOut.warnings[k].severity = "medium")

\* the candidates as scoreCandidates declares them, for the features of the call
Declared == scoreCandidates(iF, iIn.flags)

\* a raw score clamped to [0, 100]
Clamped(score) == IF score < 0 THEN 0 ELSE IF score > 100 THEN 100 ELSE score

\* the earliest declared candidate among those of the highest clamped score
EarliestHighest ==
    CHOOSE w \in 1..Len(Declared) :
        /\ \A k \in 1..Len(Declared) : Clamped(Declared[k].score) <= Clamped(Declared[w].score)
        /\ \A k \in 1..(w - 1) : Clamped(Declared[k].score) < Clamped(Declared[w].score)

\* C21: the winning candidate of inferIntent is the one with the highest
\* score after every raw score is clamped to [0, 100]; among several of the
\* highest clamped score the one declared earliest wins.
WinnerIsEarliestHighest ==
    iPhase = "done" =>
        /\ Len(Declared) = 14
        /\ iCands[1].label = Declared[EarliestHighest].label
        /\ iCands[1].score = Clamped(Declared[EarliestHighest].score)
        /\ iCands[1].rationale = Declared[EarliestHighest].rationale

\* several candidates share the highest score, above zero, and the earliest
\* of them is returned as a named label
TieWonByEarliest ==
    /\ iPhase = "done"
    /\ iCands[1].score > 0
    /\ iCands[2].score = iCands[1].score
    /\ EarliestHighest > 1
    /\ iOut.label = Declared[EarliestHighest].label

\* 0.35 + score/100 * 0.6 capped at 0.9, in thousandths
MappedConfidence(score) == IF 350 + 6 * score > 900 THEN 900 ELSE 350 + 6 * score

TreeHasWordBoundary ==
    AnyNode(walk(iIn.ast), LAMBDA n :
        n.type = "Assertion" /\ n.kind \in {"word", "wordBoundary"})
TreeHasAlternation ==
    AnyNode(walk(iIn.ast), LAMBDA n : Has(n, "alternatives") /\ Len(n.alternatives) > 1)

\* the documented deltas of the email-like candidate that hold for the call
EmailDeltas ==
    <<<<iF.usesAtSign, 45, "Contains '@'">>,
      <<iF.usesDotLiteral, 15, "Uses '.' (likely domain separator)">>,
      <<iF.hasStartAnchor /\ iF.hasEndAnchor, 10, "Anchored to whole string">>,
      <<TreeHasWordBoundary, 5, "Uses word boundary">>,
      <<TreeHasAlternation, -5, "Alternation reduces certainty">> >>

\* C23: the raw score of the email-like candidate is the sum of its
\* documented deltas: +45 for '@', +15 for an escaped dot, +10 for a start and
\* an end assertion together, +5 for a word-boundary assertion, -5 for an
\* alternation; each signal that holds adds its delta and its rationale.
EmailScoreIsSumOfDeltas ==
    iPhase = "done" =>
        /\ Declared[1].label = "Email-like identifier"
        /\ Declared[1].score = ScoreOf(EmailDeltas)
        /\ Declared[1].rationale = RationaleOf(EmailDeltas)

\* the seed cap cut the seed list of the call; the attempt cap was reached
SeedCapReached ==
    sampleSeedsFromMatches(eIn.sampleText, eIn.matches, limitsOf(eIn.guard).maxCandidates)
        # sampleSeedsFromMatches(eIn.sampleText, eIn.matches, 250)
WorkCapReached == eOut.used >= limitsOf(eIn.guard).maxTotalWork

\* C24: whenever a work cap of the estimator is reached during
\* estimateFalsePosNeg (the seed cap maxCandidates, the attempt cap
\* maxTotalWork), no further pattern test is run and the returned notes
\* contain the capped-estimation note.
CapsAreReported ==
    (/\ ePhase = "done" /\ eOut.outcome = "returned"
     /\ Len(eIn.matches) > 0
     /\ EngineCompiles(eIn.pattern, stripFirstG(eIn.flagsStr))
     /\ SeedCapReached \/ WorkCapReached)
    => /\ eOut.used <= limitsOf(eIn.guard).maxTotalWork
       /\ "Estimation was capped to avoid slowdowns." \in Range(eOut.notes)

\* the POTENTIAL_BACKTRACKING warnings of the returned list
BacktrackingWarnings ==
    {rOut.warnings[k] : k \in WarningsWithId(RISK.POTENTIAL_BACKTRACKING)}

EstRe == safeCompile(eIn.pattern, stripFirstG(eIn.flagsStr))
EstSeeds ==
    sampleSeedsFromMatches(eIn.sampleText, eIn.matches, limitsOf(eIn.guard).maxCandidates)

\* text is a variant of some seed, of the should-not-match kind (mightMatch)
\* or of the should-still-match kind, that the pattern test answers with
\* verdict for some lastIndex the expression can have; without the sticky
\* flag the test does not read lastIndex
IsTestedVariant(text, mightMatch, verdict) ==
    \E s \in 1..Len(EstSeeds) :
        /\ text \in Range(variantsOf(EstSeeds[s], eIn.ast, mightMatch).variants)
        /\ \E lastIndex \in 0..(Len(EstSeeds[s]) + 6) :
              regexTest(EstRe, lastIndex, text).m = verdict

\* C26: every entry of likelyFalseNegatives is a should-still-match variant
\* of a seed that the pattern test answered with no match, every entry of
\* likelyFalsePositives a should-not-match variant of a seed that the test
\* answered with a match.
EntriesAreTestedVariants ==
    (ePhase = "done" /\ eOut.outcome = "returned") =>
        /\ \A k \in 1..Len(eOut.likelyFalseNegatives) :
              IsTestedVariant(eOut.likelyFalseNegatives[k].text, FALSE, FALSE)
        /\ \A k \in 1..Len(eOut.likelyFalsePositives) :
              IsTestedVariant(eOut.likelyFalsePositives[k].text, TRUE, TRUE)

\* a result with entries in both lists
BothListsFilled ==
    /\ ePhase = "done" /\ eOut.outcome = "returned"
    /\ eIn.flagsStr = <<>>
    /\ Len(eOut.likelyFalseNegatives) >= 2
    /\ Len(eOut.likelyFalsePositives) >= 2

\* the verdict of a freshly compiled expression on the text: lastIndex is 0
FreshVerdict(text) == regexTest(EstRe, 0, text).m

\* C27: the verdict of a variant in estimateFalsePosNeg depends only on the
\* pattern, the flags without g and the text of the variant: it is the
\* verdict of a freshly compiled expression searching from position 0, for
\* every combination of flags, the sticky flag included.  So a returned
\* likely false negative does not match a fresh expression and a returned
\* likely false positive does.
VerdictsAreFresh ==
    (ePhase = "done" /\ eOut.outcome = "returned") =>
        /\ \A k \in 1..Len(eOut.likelyFalseNegatives) :
              ~FreshVerdict(eOut.likelyFalseNegatives[k].text)
        /\ \A k \in 1..Len(eOut.likelyFalsePositives) :
              FreshVerdict(eOut.likelyFalsePositives[k].text)

\* C28: after any interleaving of input events, timer expiries and Run
\* clicks at most one debounce timer is pending: an input event leaves
\* exactly one timer pending, the one it set; a Run click leaves none, so no
\* analysis scheduled before the click fires after it; after an expiry none
\* is pending, so the input events of a burst cause one run, not several.
OneDebounceTimer ==
    /\ Cardinality(dPending) <= 1
    /\ dLast = "input" => dPending = {dTimer}
    /\ dLast = "click" => dPending = {}
    /\ dLast = "timer" => dPending = {} /\ dBurst = 1

\* a burst of three input events, then the one run they cause
BurstRanOnce ==
    /\ dLast = "timer"
    /\ dIds = 3
    /\ dRuns = 1
    /\ dPending = {}

\* C29: every named label can be returned: with every signal of its block
\* present, the score of each named label maps to a confidence of at least
\* the threshold.
NamedLabels == {INTENT_LABELS[n] : n \in DOMAIN INTENT_LABELS \ {"GENERAL"}}
EveryNamedLabelReachable ==
    (iPhase = "done" /\ iF = AllSignals) =>
        \A k \in 1..Len(iCands) :
            iCands[k].label \in NamedLabels =>
                toConfidence(iCands[k].score) >= INTENT_CONFIDENCE_THRESHOLD

\* C30: the match loop of executeRegex terminates for every pattern, flags
\* and text: every call returns; with g an iteration ends the loop or leaves
\* lastIndex strictly greater than it was, after a zero-width match too; a
\* compile fault returns no matches and a fault in the loop returns the
\* matches pushed before it; a call without fault returns what executeRegex
\* returns.
IsPrefix(s, t) == Len(s) <= Len(t) /\ s = SubSeq(t, 1, Len(s))
ExecuteRegexTerminates ==
    /\ <>(lPc = "done")
    /\ [][LoopIterate => (lPc' = "done" \/ lLast' > lLast)]_vars
    /\ [][LoopFault => (lPc' = "done" /\ lResults' = lResults)]_vars
    /\ [](lPc = "done" =>
            LET all == executeRegex(lIn.pattern, lIn.flags, lIn.text, lIn.guard)
            IN  /\ lFault = "none" => lResults = all
                /\ lFault = "compile" => lResults = <<>>
                /\ lFault = "exec" => IsPrefix(lResults, all))

\* the empty pattern with g on the longest text: a zero-width match at every
\* position, the end included
ZeroWidthMatchesEverywhere ==
    /\ lPc = "done"
    /\ lFault = "none"
    /\ lIn.pattern = <<>>
    /\ lIn.flags = <<"g">>
    /\ Len(lIn.text) = MaxTextLen
    /\ Len(lResults) = MaxTextLen + 1

====
